---- MODULE Spec2Model ----
(***************************************************************************)
(* Oriel interpreter: the parser front-end (parse.rs, Program::from_src)   *)
(* and the virtual machine (vm.rs, VM::step / VM::run) driving the host    *)
(* behind the VMSys trait (sys_gtk.rs: the input bindings and the input    *)
(* queue of VMSysGtk).                                                     *)
(*                                                                         *)
(* The pest grammar (oriel.pest) is not part of the sources at hand; the   *)
(* parse tree it produces is therefore an input of the model: a sequence   *)
(* of command groups, each a sequence of command parts (the parts of the   *)
(* commands of a group, in order), each part a rule name, the tokens       *)
(* below it and the column at which it starts.                             *)
(***************************************************************************)
EXTENDS Integers, Sequences, FiniteSets, TLC

VARIABLES
    matches,     \* getopts Matches: the flag --pedantic and the option --std
    source,      \* the parse tree handed to Program::from_src
    config,      \* cfg::Config
    pc,          \* "main" | "panic" | "parse" | "run" | "ok" | "err" | "parse_err"
    program,     \* ir::Program {commands, labels}
    parse_error, \* parse::Error raised by from_src, "none" otherwise
    parse_error_at, \* the ErrorLoc and the text that error carries
    ip,          \* VM.ip
    vars,        \* VM.vars      (Identifier -> u16)
    vars_str,    \* VM.vars_str  (Identifier -> str)
    call_stack,  \* VM.call_stack
    error,       \* vm::Error returned by run, "none" otherwise
    host_calls,  \* the calls received by the VMSys implementation, in order
    host_mouse,  \* the regions the host got with its last set_mouse
    gosub_log,   \* history: one frame per Gosub that has not returned yet
    balance,     \* history: the Gosubs executed minus the Returns executed
    steps,       \* history: the steps run has taken of a program without jumps and waits
    host_keyboard, \* InputCtx.keyboard of the host (vm::Key -> label)
    host_menu,   \* InputCtx.menu of the host (item index -> label)
    menu_bar,    \* the items of the menu bar of the host, in the order they were made
    wait_mode,   \* VMSysGtk.wait_mode
    stale,       \* history: an entry of the queue had a handler when wait_input was last called
    queue        \* InputQueue of the host {keyboard, mouse, menu, closed}

vars_all == <<matches, source, config, pc, program, parse_error, parse_error_at,
              ip, vars, vars_str, call_stack, error, host_calls, host_mouse,
              gosub_log, balance, steps, host_keyboard, host_menu, menu_bar, wait_mode, stale, queue>>

----------------------------------------------------------------------------
(* Bounds of the model *)

MaxParts == 2
MaxStack == 3
MaxHostCalls == 11
MaxEvents == 2
MaxQueue == 3

(* Program constants *)

U16Max == 65535
MaxLabels == 500
MaxVars == 500
MaxVarsStr == 200

----------------------------------------------------------------------------
(* Tokens and operands *)

Tok(rule, text, num) == [rule |-> rule, text |-> text, num |-> num]
TInt(n) == Tok("integer", "", n)
TId(s) == Tok("identifier", s, 0)
TOp(s) == Tok("operator", s, 0)
\* a string literal (its text is held without the two quotes that the grammar's
\* string rule guarantees and str_lit_parse removes) and a string identifier
TStr(s) == Tok("string", s, 0)
TIdS(s) == Tok("identifier_str", s, 0)
TKw(s) == Tok("keyword", s, 0)

Literal(n) == [kind |-> "Literal", val |-> n, ident |-> ""]
Variable(s) == [kind |-> "Variable", val |-> 0, ident |-> s]

StrLiteral(s) == [kind |-> "Literal", val |-> s, ident |-> ""]
StrVariable(s) == [kind |-> "Variable", val |-> "", ident |-> s]

\* A part with the line and the column of its first token; the line is of use
\* only in the position an error reports, and is 1 where it is not given
PartAt(rule, kwords, line, col) ==
    [rule |-> rule, kwords |-> kwords, line |-> line, col |-> col]
Part(rule, kwords, col) == PartAt(rule, kwords, 1, col)

Ok(v) == [ok |-> TRUE, v |-> v, err |-> "none"]
Err(e) == [ok |-> FALSE, v |-> 0, err |-> e]

LogicalOperators == {"=", "<", ">", "<=", ">=", "<>"}
MathOperators == {"+", "-", "*", "/"}

\* impl TryFrom<&Pair> for ir::Identifier
IdentifierFrom(tok) ==
    IF tok.rule = "identifier" THEN Ok(tok.text) ELSE Err("ArgTypeError")

\* impl TryFrom<&Pair> for ir::Integer
IntegerFrom(tok) ==
    CASE tok.rule = "integer" ->
            IF tok.num <= U16Max THEN Ok(Literal(tok.num)) ELSE Err("ParseIntError")
      [] tok.rule = "identifier" -> Ok(Variable(tok.text))
      [] OTHER -> Err("ArgTypeError")

\* impl TryFrom<&Pair> for ir::Str
StrFrom(tok) ==
    CASE tok.rule = "string" -> Ok(StrLiteral(tok.text))
      [] tok.rule = "identifier_str" -> Ok(StrVariable(tok.text))
      [] OTHER -> Err("ArgTypeError")

\* impl TryFrom<&Pair> for ir::Key (the virtual keys)
KeyFrom(tok) ==
    IF tok.rule \in {"identifier", "integer"} THEN IntegerFrom(tok)
    ELSE Err("ArgTypeError")

MessageBoxTypes == {"OK", "OKCANCEL", "YESNO", "YESNOCANCEL"}
MessageBoxIcons == {"INFORMATION", "EXCLAMATION", "QUESTION", "STOP", "NOICON"}
WaitModes == {"NULL", "FOCUS"}

\* enum_impl_from_str!(MessageBoxType | MessageBoxIcon | WaitMode, ...)
EnumFrom(variants, tok) ==
    IF tok.text \in variants THEN Ok(tok.text) ELSE Err("MatchTokenError")

\* enum_impl_from_str!(LogicalOperator, ...)
LogicalOperatorFrom(tok) ==
    IF tok.text \in LogicalOperators THEN Ok(tok.text) ELSE Err("MatchTokenError")

\* enum_impl_from_str!(MathOperator, ...)
MathOperatorFrom(tok) ==
    IF tok.text \in MathOperators THEN Ok(tok.text) ELSE Err("MatchTokenError")

----------------------------------------------------------------------------
(* Finite maps (HashMap) *)

EmptyMap == [k \in {} |-> 0]
Insert(m, k, v) == [x \in (DOMAIN m) \cup {k} |-> IF x = k THEN v ELSE m[x]]
Len0(m) == Cardinality(DOMAIN m)

----------------------------------------------------------------------------
(* parse.rs *)

\* str::to_lowercase on the keywords of the language
to_lowercase(s) ==
    CASE s \in {"BEEP", "Beep", "beep"} -> "beep"
      [] s \in {"END", "End", "end"} -> "end"
      [] s \in {"RETURN", "Return", "return"} -> "return"
      [] s \in {"DRAWBACKGROUND", "drawbackground"} -> "drawbackground"
      [] s \in {"DRAWNUMBER", "DrawNumber", "drawnumber"} -> "drawnumber"
      [] s \in {"WAITINPUT", "WaitInput", "waitinput"} -> "waitinput"
      [] s \in {"SETMOUSE", "SetMouse", "setmouse"} -> "setmouse"
      [] s \in {"DRAWTEXT", "DrawText", "drawtext"} -> "drawtext"
      [] s \in {"MESSAGEBOX", "MessageBox", "messagebox"} -> "messagebox"
      [] s \in {"RUN", "Run", "run"} -> "run"
      [] s \in {"SETKEYBOARD", "SetKeyboard", "setkeyboard"} -> "setkeyboard"
      [] s \in {"SETMENU", "SetMenu", "setmenu"} -> "setmenu"
      [] s \in {"SETWAITMODE", "SetWaitMode", "setwaitmode"} -> "setwaitmode"
      [] OTHER -> s

\* ir::Command::try_from_keyword
try_from_keyword(command) ==
    CASE to_lowercase(command.text) = "beep" -> Ok([cmd |-> "Beep"])
      [] to_lowercase(command.text) = "drawbackground" -> Ok([cmd |-> "DrawBackground"])
      [] to_lowercase(command.text) = "end" -> Ok([cmd |-> "End"])
      [] to_lowercase(command.text) = "return" -> Ok([cmd |-> "Return"])

\* next_pair!(kwords)?.try_into()? applied n times for Integer fields:
\* the first missing pair or failed conversion ends the function
RECURSIVE next_integers(_, _)
next_integers(kwords, n) ==
    IF n = 0 THEN Ok(<<>>)
    ELSE IF kwords = <<>> THEN Err("MissingArgError")
    ELSE LET i == IntegerFrom(Head(kwords)) IN
         IF ~i.ok THEN i
         ELSE LET rest == next_integers(Tail(kwords), n - 1) IN
              IF ~rest.ok THEN rest ELSE Ok(<<i.v>> \o rest.v)

\* the same for Identifier fields
RECURSIVE next_identifiers(_, _)
next_identifiers(kwords, n) ==
    IF n = 0 THEN Ok(<<>>)
    ELSE IF kwords = <<>> THEN Err("MissingArgError")
    ELSE LET i == IdentifierFrom(Head(kwords)) IN
         IF ~i.ok THEN i
         ELSE LET rest == next_identifiers(Tail(kwords), n - 1) IN
              IF ~rest.ok THEN rest ELSE Ok(<<i.v>> \o rest.v)

Drop(s, n) == SubSeq(s, n + 1, Len(s))

\* try_from_func, "setmouse": while kwords.peek().is_some() push a region
RECURSIVE setmouse_params(_)
setmouse_params(kwords) ==
    IF kwords = <<>> THEN Ok(<<>>)
    ELSE LET ints == next_integers(kwords, 4) IN
         IF ~ints.ok THEN ints
         ELSE LET ids == next_identifiers(Drop(kwords, 4), 3) IN
              IF ~ids.ok THEN ids
              ELSE LET rest == setmouse_params(Drop(kwords, 7)) IN
                   IF ~rest.ok THEN rest
                   ELSE Ok(<<[x1 |-> ints.v[1], y1 |-> ints.v[2],
                              x2 |-> ints.v[3], y2 |-> ints.v[4],
                              callbacks |-> [label |-> ids.v[1], x |-> ids.v[2],
                                             y |-> ids.v[3]]]>> \o rest.v)

\* next_pair!(kwords)?.try_into()? for a field of the given type
Conv(kind, tok) ==
    CASE kind = "Integer" -> IntegerFrom(tok)
      [] kind = "Identifier" -> IdentifierFrom(tok)
      [] kind = "Str" -> StrFrom(tok)
      [] kind = "MessageBoxType" -> EnumFrom(MessageBoxTypes, tok)
      [] kind = "MessageBoxIcon" -> EnumFrom(MessageBoxIcons, tok)
      [] kind = "WaitMode" -> EnumFrom(WaitModes, tok)

\* the fields of a command in order: the first missing pair or failed
\* conversion ends the function
RECURSIVE next_pairs(_, _)
next_pairs(kwords, kinds) ==
    IF kinds = <<>> THEN Ok(<<>>)
    ELSE IF kwords = <<>> THEN Err("MissingArgError")
    ELSE LET f == Conv(Head(kinds), Head(kwords)) IN
         IF ~f.ok THEN f
         ELSE LET rest == next_pairs(Tail(kwords), Tail(kinds)) IN
              IF ~rest.ok THEN rest ELSE Ok(<<f.v>> \o rest.v)

\* try_from_func, "setkeyboard": while kwords.peek().is_some() insert (key, label)
RECURSIVE setkeyboard_params(_, _)
setkeyboard_params(kwords, params) ==
    IF kwords = <<>> THEN Ok(params)
    ELSE LET key == KeyFrom(Head(kwords)) IN
         IF ~key.ok THEN key
         ELSE IF Len(kwords) < 2 THEN Err("MissingArgError")
         ELSE LET label == IdentifierFrom(kwords[2]) IN
              IF ~label.ok THEN label
              ELSE setkeyboard_params(Drop(kwords, 2), Insert(params, key.v, label.v))

NoLabel == [some |-> FALSE, ident |-> ""]
SomeLabel(l) == [some |-> TRUE, ident |-> l]
Separator == [kind |-> "Separator", name |-> StrLiteral(""), label |-> NoLabel]
MenuItem(name, label) == [kind |-> "Item", name |-> name, label |-> label]
IsWord(tok, w) == tok.rule # "string" /\ tok.text = w

\* next_pair_set_menu_label
next_pair_set_menu_label(kwords) ==
    IF kwords = <<>> THEN Err("MissingArgError")
    ELSE IF IsWord(Head(kwords), "IGNORE") THEN Ok(NoLabel)
    ELSE LET l == IdentifierFrom(Head(kwords)) IN
         IF ~l.ok THEN l ELSE Ok(SomeLabel(l.v))

\* try_from_func, "setmenu": the members of a category up to ENDPOPUP, and
\* the pairs that follow it
RECURSIVE setmenu_members(_)
setmenu_members(kwords) ==
    IF kwords = <<>> THEN Err("MissingArgError")
    ELSE IF IsWord(Head(kwords), "ENDPOPUP")
    THEN Ok([members |-> <<>>, rest |-> Tail(kwords)])
    ELSE IF IsWord(Head(kwords), "SEPARATOR")
    THEN LET r == setmenu_members(Tail(kwords)) IN
         IF ~r.ok THEN r
         ELSE Ok([members |-> <<Separator>> \o r.v.members, rest |-> r.v.rest])
    ELSE LET name == StrFrom(Head(kwords))
             label == next_pair_set_menu_label(Tail(kwords))
         IN IF ~name.ok THEN name
            ELSE IF ~label.ok THEN label
            ELSE LET r == setmenu_members(Drop(kwords, 2)) IN
                 IF ~r.ok THEN r
                 ELSE Ok([members |-> <<MenuItem(name.v, label.v)>> \o r.v.members,
                          rest |-> r.v.rest])

\* try_from_func, "setmenu": while kwords.peek().is_some() push a category
RECURSIVE setmenu_items(_)
setmenu_items(kwords) ==
    IF kwords = <<>> THEN Ok(<<>>)
    ELSE LET name == StrFrom(Head(kwords))
             label == next_pair_set_menu_label(Tail(kwords))
         IN IF ~name.ok THEN name
            ELSE IF ~label.ok THEN label
            ELSE LET m == setmenu_members(Drop(kwords, 2)) IN
                 IF ~m.ok THEN m
                 ELSE LET rest == setmenu_items(m.v.rest) IN
                      IF ~rest.ok THEN rest
                      ELSE Ok(<<[item |-> MenuItem(name.v, label.v),
                                 members |-> m.v.members]>> \o rest.v)

\* if let Some(ref pair) = kwords.next() { Err(ExtraneousArgError) } else { Ok(command) }
NoMore(args, n, command) ==
    IF Len(args) > n THEN Err("ExtraneousArgError") ELSE Ok(command)

NoneInt == [some |-> FALSE, i |-> Literal(0)]
SomeInt(i) == [some |-> TRUE, i |-> i]

\* ir::Command::try_from_func: kwords is the function name followed by its arguments
try_from_func(kwords) ==
    LET fname == to_lowercase(Head(kwords).text)
        args == Tail(kwords)
    IN CASE fname = "drawnumber" ->
              LET a == next_integers(args, 3) IN
              IF ~a.ok THEN a
              ELSE IF Len(args) > 3 THEN Err("ExtraneousArgError")
              ELSE Ok([cmd |-> "DrawNumber", x |-> a.v[1], y |-> a.v[2], n |-> a.v[3]])
         [] fname = "setmouse" ->
              LET p == setmouse_params(args) IN
              IF ~p.ok THEN p ELSE Ok([cmd |-> "SetMouse", params |-> p.v])
         [] fname = "drawtext" ->
              LET a == next_pairs(args, <<"Integer", "Integer", "Str">>) IN
              IF ~a.ok THEN a
              ELSE NoMore(args, 3, [cmd |-> "DrawText", x |-> a.v[1], y |-> a.v[2],
                                    text |-> a.v[3]])
         [] fname = "messagebox" ->
              LET a == next_pairs(args, <<"MessageBoxType", "Integer", "MessageBoxIcon",
                                          "Str", "Str", "Identifier">>) IN
              IF ~a.ok THEN a
              ELSE NoMore(args, 6, [cmd |-> "MessageBox", typ |-> a.v[1],
                                    default_button |-> a.v[2], icon |-> a.v[3],
                                    text |-> a.v[4], caption |-> a.v[5],
                                    button_pushed |-> a.v[6]])
         [] fname = "run" ->
              LET a == next_pairs(args, <<"Str">>) IN
              IF ~a.ok THEN a ELSE NoMore(args, 1, [cmd |-> "Run", command |-> a.v[1]])
         [] fname = "setkeyboard" ->
              LET p == setkeyboard_params(args, EmptyMap) IN
              IF ~p.ok THEN p ELSE Ok([cmd |-> "SetKeyboard", params |-> p.v])
         [] fname = "setmenu" ->
              LET m == setmenu_items(args) IN
              IF ~m.ok THEN m ELSE Ok([cmd |-> "SetMenu", menu |-> m.v])
         [] fname = "setwaitmode" ->
              LET a == next_pairs(args, <<"WaitMode">>) IN
              IF ~a.ok THEN a ELSE NoMore(args, 1, [cmd |-> "SetWaitMode", mode |-> a.v[1]])
         [] fname = "waitinput" ->
              IF args = <<>> THEN Ok([cmd |-> "WaitInput", milliseconds |-> NoneInt])
              ELSE LET i == IntegerFrom(Head(args)) IN
                   IF ~i.ok THEN i
                   ELSE IF Len(args) > 1 THEN Err("ExtraneousArgError")
                   ELSE Ok([cmd |-> "WaitInput", milliseconds |-> SomeInt(i.v)])

\* The state of from_src while it walks the tree
\* impl From<&Pair> for ErrorLoc, with the text the error carries; NoLoc for
\* the errors whose position is not kept in the model
NoLoc == [line |-> 0, col |-> 0, text |-> ""]
ErrorLoc(part) == [line |-> part.line, col |-> part.col, text |-> part.kwords[1].text]

ParseState(commands, labels, if_indices, err) ==
    [commands |-> commands, labels |-> labels, if_indices |-> if_indices, err |-> err,
     at |-> NoLoc]

Push(st, c) ==
    IF c.ok THEN [st EXCEPT !.commands = Append(st.commands, c.v)]
    ELSE [st EXCEPT !.err = c.err]

\* Rule::command_if_then: the If is emitted with goto_false 0 and its index recorded
command_if_then(st, kwords) ==
    LET i1 == IntegerFrom(kwords[1])
        op == LogicalOperatorFrom(kwords[2])
        i2 == IntegerFrom(kwords[3])
        pushed == [st EXCEPT !.if_indices = Append(st.if_indices, Len(st.commands))]
    IN IF ~i1.ok THEN [pushed EXCEPT !.err = i1.err]
       ELSE IF ~op.ok THEN [pushed EXCEPT !.err = op.err]
       ELSE IF ~i2.ok THEN [pushed EXCEPT !.err = i2.err]
       ELSE Push(pushed, Ok([cmd |-> "If", i1 |-> i1.v, op |-> op.v, i2 |-> i2.v,
                             goto_false |-> 0]))

\* Rule::command_set
command_set(st, kwords) ==
    LET var == IdentifierFrom(kwords[1])
        i1 == IntegerFrom(kwords[2])
    IN IF ~var.ok THEN [st EXCEPT !.err = var.err]
       ELSE IF ~i1.ok THEN [st EXCEPT !.err = i1.err]
       ELSE IF Len(kwords) = 2
            THEN Push(st, Ok([cmd |-> "Set", var |-> var.v,
                              val |-> [kind |-> "Value", i |-> i1.v]]))
            ELSE LET op == MathOperatorFrom(kwords[3])
                     i2 == IntegerFrom(kwords[4])
                 IN IF ~op.ok THEN [st EXCEPT !.err = op.err]
                    ELSE IF ~i2.ok THEN [st EXCEPT !.err = i2.err]
                    ELSE Push(st, Ok([cmd |-> "Set", var |-> var.v,
                                      val |-> [kind |-> "Expression", i1 |-> i1.v,
                                               op |-> op.v, i2 |-> i2.v]]))

\* Rule::command_goto / Rule::command_gosub
command_jump(st, cmd, kwords) ==
    LET ident == IdentifierFrom(kwords[1]) IN
    IF ~ident.ok THEN [st EXCEPT !.err = ident.err]
    ELSE Push(st, Ok([cmd |-> cmd, ident |-> ident.v]))

\* Mutant of label_part: a name that is already in the table keeps its first index
label_part_first(st, part, cfg) ==
    IF cfg.pedantic /\ Len0(st.labels) >= MaxLabels
    THEN [st EXCEPT !.err = "ExcessLabelsError"]
    ELSE IF part.col > 1
    THEN [st EXCEPT !.err = "LabelIndentationError", !.at = ErrorLoc(part)]
    ELSE IF part.kwords[1].text \in DOMAIN st.labels THEN st
    ELSE [st EXCEPT !.labels = Insert(st.labels, part.kwords[1].text, Len(st.commands))]

\* Mutant of label_part: a label is taken at any column
label_part_indented(st, part, cfg) ==
    IF cfg.pedantic /\ Len0(st.labels) >= MaxLabels
    THEN [st EXCEPT !.err = "ExcessLabelsError"]
    ELSE [st EXCEPT !.labels = Insert(st.labels, part.kwords[1].text, Len(st.commands))]

\* Rule::label
label_part(st, part, cfg) ==
    IF cfg.pedantic /\ Len0(st.labels) >= MaxLabels
    THEN [st EXCEPT !.err = "ExcessLabelsError"]
    ELSE IF part.col > 1
    THEN [st EXCEPT !.err = "LabelIndentationError", !.at = ErrorLoc(part)]
    ELSE [st EXCEPT !.labels = Insert(st.labels, part.kwords[1].text, Len(st.commands))]

\* One iteration of the innermost loop of from_src
command_part(st, part, cfg) ==
    CASE part.rule = "kword_command_nfunc" -> Push(st, try_from_keyword(part.kwords[1]))
      [] part.rule = "command_func" -> Push(st, try_from_func(part.kwords))
      [] part.rule = "command_goto" -> command_jump(st, "Goto", part.kwords)
      [] part.rule = "command_gosub" -> command_jump(st, "Gosub", part.kwords)
      [] part.rule = "command_if_then" -> command_if_then(st, part.kwords)
      [] part.rule = "command_set" -> command_set(st, part.kwords)
      [] part.rule = "label" -> label_part(st, part, cfg)

\* The parts of one group, in order; an error returns at once (the first half
\* of the parts, then the second half on the state the first half leaves)
RECURSIVE group_parts(_, _, _)
group_parts(st, parts, cfg) ==
    IF parts = <<>> \/ st.err # "none" THEN st
    ELSE IF Len(parts) = 1 THEN command_part(st, parts[1], cfg)
    ELSE LET half == Len(parts) \div 2 IN
         group_parts(group_parts(st, SubSeq(parts, 1, half), cfg),
                     SubSeq(parts, half + 1, Len(parts)), cfg)

\* Mutant of back_patch: the pending Ifs keep the target they were emitted with
back_patch_skipped(st) == [st EXCEPT !.if_indices = <<>>]

\* Mutant of back_patch: every If emitted so far is patched, of whatever group
back_patch_all(st) ==
    [st EXCEPT !.commands =
        [k \in 1..Len(st.commands) |->
            IF st.commands[k].cmd = "If"
            THEN [st.commands[k] EXCEPT !.goto_false = Len(st.commands)]
            ELSE st.commands[k]],
     !.if_indices = <<>>]

\* Mutant of back_patch: the target is one past the end of the group
back_patch_past(st) ==
    [st EXCEPT !.commands =
        [k \in 1..Len(st.commands) |->
            IF \E j \in 1..Len(st.if_indices) : st.if_indices[j] = k - 1
            THEN [st.commands[k] EXCEPT !.goto_false = Len(st.commands) + 1]
            ELSE st.commands[k]],
     !.if_indices = <<>>]

\* for idx in if_indices: commands[idx].goto_false = commands.len()
back_patch(st) ==
    [st EXCEPT !.commands =
        [k \in 1..Len(st.commands) |->
            IF \E j \in 1..Len(st.if_indices) : st.if_indices[j] = k - 1
            THEN [st.commands[k] EXCEPT !.goto_false = Len(st.commands)]
            ELSE st.commands[k]],
     !.if_indices = <<>>]

\* One command_group: a fresh if_indices, its parts, then the back-patch
command_group(st, group, cfg) ==
    LET patched(after) == IF after.err # "none" THEN after ELSE back_patch(after)
    IN patched(group_parts([st EXCEPT !.if_indices = <<>>], group, cfg))

RECURSIVE groups(_, _, _)
groups(st, gs, cfg) ==
    IF gs = <<>> \/ st.err # "none" THEN st
    ELSE groups(command_group(st, Head(gs), cfg), Tail(gs), cfg)

\* Mutant of push_end: the sentinel is not appended
push_end_forgotten(commands) == commands

\* prog.commands.push(ir::Command::End)
push_end(commands) == Append(commands, [cmd |-> "End"])

\* ir::Program::from_src
from_src(src, cfg) ==
    LET prog(st) == IF st.err # "none" THEN [Err(st.err) EXCEPT !.v = st.at]
                    ELSE Ok([commands |-> push_end(st.commands), labels |-> st.labels])
    IN prog(groups(ParseState(<<>>, EmptyMap, <<>>, "none"), src, cfg))

----------------------------------------------------------------------------
(* The parse trees the model is run on *)

KW(text) == Part("kword_command_nfunc", <<Tok("keyword", text, 0)>>, 1)
Func(fname, args) == Part("command_func", <<Tok("keyword", fname, 0)>> \o args, 1)
GotoP(l) == Part("command_goto", <<TId(l)>>, 1)
GosubP(l) == Part("command_gosub", <<TId(l)>>, 1)
IfThenP(i1, op, i2) == Part("command_if_then", <<i1, TOp(op), i2>>, 1)
SetP(var, i1) == Part("command_set", <<TId(var), i1>>, 1)
SetExprP(var, i1, op, i2) == Part("command_set", <<TId(var), i1, TOp(op), i2>>, 1)
LabelP(l, col) == Part("label", <<TId(l)>>, col)
LabelAt(l, line, col) == PartAt("label", <<TId(l)>>, line, col)

\* The parts the short trees are built from
PartAlphabet ==
    { KW("END"), KW("RETURN"), KW("BEEP"), GotoP("L1"), GosubP("L1"), LabelP("L1", 1),
      IfThenP(TId("a"), "=", TInt(0)), SetExprP("a", TId("a"), "+", TInt(32768)),
      Func("WAITINPUT", <<>>) }

AppendToLast(src, p) ==
    IF src = <<>> THEN << <<p>> >>
    ELSE [src EXCEPT ![Len(src)] = Append(src[Len(src)], p)]

\* Every tree of exactly n parts, split into groups in every way
RECURSIVE TreesOf(_)
TreesOf(n) ==
    IF n = 0 THEN { <<>> }
    ELSE UNION { { AppendToLast(src, p), Append(src, <<p>>) } :
                 src \in TreesOf(n - 1), p \in PartAlphabet }

ShortSources == UNION { TreesOf(n) : n \in 0..MaxParts }

\* Operand values at and around the edges of u16
ArithVals == {0, 1, 2, 3, 255, 256, 257, 65534, 65535}
CmpVals == {0, 1, 2, 65535}

\* SET x = a op b
ArithSources ==
    { << <<SetExprP("x", TInt(a), op, TInt(b))>> >> :
        a \in ArithVals, b \in ArithVals, op \in MathOperators }

\* S4: IF a op b THEN / BEEP / ENDIF / BEEP / END
S4(a, op, b) ==
    << <<IfThenP(TInt(a), op, TInt(b)), KW("BEEP")>>, <<KW("BEEP"), KW("END")>> >>
IfSources == { S4(a, op, b) : a \in CmpVals, b \in CmpVals, op \in LogicalOperators }

\* S1: SET a = 2 / SET b = a + 3 / IF b = 5 THEN / BEEP / ENDIF / END
S1 == << <<SetP("a", TInt(2)), SetExprP("b", TId("a"), "+", TInt(3)),
           IfThenP(TId("b"), "=", TInt(5)), KW("BEEP")>>, <<KW("END")>> >>
\* S2: GOSUB sub / END / sub: / BEEP / RETURN
S2 == << <<GosubP("sub"), KW("END"), LabelP("sub", 1), KW("BEEP"), KW("RETURN")>> >>
\* S2 without the label sub: GOSUB sub / GOSUB sub2 / END / sub2: / RETURN
S2b == << <<GosubP("sub"), GosubP("sub2"), KW("END"), LabelP("sub2", 1), KW("RETURN")>> >>
\* S3: SET x = 65535 / SET y = x + 1 / END
S3 == << <<SetP("x", TInt(65535)), SetExprP("y", TId("x"), "+", TInt(1)), KW("END")>> >>
\* S5: SETMOUSE 0 0 100 100 hit mx my / WAITINPUT / END / hit: / DRAWNUMBER mx my 42 / END
S5 == << <<Func("SETMOUSE", <<TInt(0), TInt(0), TInt(100), TInt(100),
                               TId("hit"), TId("mx"), TId("my")>>),
           Func("WAITINPUT", <<>>), KW("END"), LabelP("hit", 1),
           Func("DRAWNUMBER", <<TId("mx"), TId("my"), TInt(42)>>), KW("END")>> >>
\* S6: "  bad:" / END
S6 == << <<LabelP("bad", 3), KW("END")>> >>
\* GOSUB s1 / BEEP / END / s1: / GOSUB s2 / GOSUB s2 / RETURN / s2: / BEEP / RETURN
Nested == << <<GosubP("s1"), KW("BEEP"), KW("END"), LabelP("s1", 1), GosubP("s2"),
               GosubP("s2"), KW("RETURN"), LabelP("s2", 1), KW("BEEP"), KW("RETURN")>> >>
\* GOSUB L1 / L1: / RETURN: the subroutine is entered once more by falling into it
Sub == << <<GosubP("L1"), LabelP("L1", 1), KW("RETURN")>> >>
\* L1: / BEEP / L1: / GOTO L1: the same label twice
Twice == << <<LabelP("L1", 1), KW("BEEP"), LabelP("L1", 1), GotoP("L1")>> >>
\* IF a = 0 THEN / IF a < 1 THEN / L1: / BEEP / ENDIF / WAITINPUT 100 / L9: (last)
Blocks == << <<IfThenP(TId("a"), "=", TInt(0)), IfThenP(TId("a"), "<", TInt(1)),
               LabelP("L1", 1), KW("BEEP")>>,
             <<Func("WAITINPUT", <<TInt(100)>>), LabelP("L9", 1)>> >>
\* Four groups: IF / L1: / BEEP / IF, then IF / L2: / BEEP, then L3:, then IF
Groups == << <<IfThenP(TId("a"), "=", TInt(0)), LabelP("L1", 1), KW("BEEP"),
               IfThenP(TId("a"), "<", TInt(1))>>,
             <<IfThenP(TId("a"), ">", TInt(2)), LabelP("L2", 1), KW("BEEP")>>,
             <<LabelP("L3", 1)>>,
             <<IfThenP(TId("a"), "=", TInt(3))>> >>
\* Trees the parser rejects: a literal too wide, a missing and an extra argument
Rejected ==
    { << <<SetP("a", TInt(65536))>> >>,
      << <<Func("DRAWNUMBER", <<TInt(1), TInt(2)>>)>> >>,
      << <<Func("DRAWNUMBER", <<TInt(1), TInt(2), TInt(3), TInt(4)>>)>> >>,
      << <<KW("BEEP")>>, <<IfThenP(TInt(1), "==", TInt(2))>> >> }

Scenarios == {S1, S2, S2b, S3, S5, S6, Nested, Sub, Twice, Blocks, Groups} \cup Rejected

\* SETKEYBOARD 65 L1 27 gone / WAITINPUT / END / L1: / BEEP / END (gone is not declared)
Keys == << <<Func("SETKEYBOARD", <<TInt(65), TId("L1"), TInt(27), TId("gone")>>),
             Func("WAITINPUT", <<>>), KW("END"), LabelP("L1", 1), KW("BEEP"), KW("END")>> >>
\* SET k = 65 / SETKEYBOARD k one 65 two j three / END: three sources for one or two keys
SameKey == << <<SetP("k", TInt(65)),
                Func("SETKEYBOARD", <<TId("k"), TId("one"), TInt(65), TId("two"),
                                      TId("j"), TId("three")>>), KW("END")>> >>
\* SETKEYBOARD c L1 / END for every code c of KeyCodes, as a literal and in a variable
KeyCodes == 0..260 \cup {511, 577, 32768, 65535}
KeySources ==
    { << <<Func("SETKEYBOARD", <<TInt(c), TId("L1")>>), KW("END")>> >> : c \in KeyCodes }
    \cup { << <<SetP("k", TInt(c)), Func("SETKEYBOARD", <<TId("k"), TId("L1")>>),
                KW("END")>> >> : c \in {0, 12, 65, 108, 200, 222, 223, 65535} }
\* SETKEYBOARD 65 old / SETKEYBOARD 27 new / WAITINPUT / old: / new: / END
Rekey == << <<Func("SETKEYBOARD", <<TInt(65), TId("old")>>),
              Func("SETKEYBOARD", <<TInt(27), TId("new")>>),
              Func("WAITINPUT", <<>>), LabelP("old", 1), LabelP("new", 1), KW("END")>> >>
\* SETMOUSE 0 0 100 100 old mx my / SETMOUSE 0 0 10 10 new mx my / WAITINPUT / old: / END
Remouse == << <<Func("SETMOUSE", <<TInt(0), TInt(0), TInt(100), TInt(100),
                                   TId("old"), TId("mx"), TId("my")>>),
                Func("SETMOUSE", <<TInt(0), TInt(0), TInt(10), TInt(10),
                                   TId("new"), TId("mx"), TId("my")>>),
                Func("WAITINPUT", <<>>), LabelP("old", 1), KW("END")>> >>
\* SETMENU "&File" IGNORE "Open" open SEPARATOR "Quit" quit ENDPOPUP /
\* SETMENU t$ edit ENDPOPUP "Help" IGNORE "About" about ENDPOPUP / WAITINPUT /
\* open: / quit: / edit: / about: / END
Remenu == << <<Func("SETMENU", <<TStr("&File"), TKw("IGNORE"), TStr("Open"), TId("open"),
                                 TKw("SEPARATOR"), TStr("Quit"), TId("quit"),
                                 TKw("ENDPOPUP")>>),
               Func("SETMENU", <<TIdS("t$"), TId("edit"), TKw("ENDPOPUP"),
                                 TStr("Help"), TKw("IGNORE"), TStr("About"), TId("about"),
                                 TKw("ENDPOPUP")>>),
               Func("WAITINPUT", <<>>), LabelP("open", 1), LabelP("quit", 1),
               LabelP("edit", 1), LabelP("about", 1), KW("END")>> >>
\* SET a = 100 / SETMOUSE a 100 0 b hit mx my / WAITINPUT / END: x1 > x2, y1 > y2
Inverted == << <<SetP("a", TInt(100)),
                 Func("SETMOUSE", <<TId("a"), TInt(100), TInt(0), TId("b"),
                                    TId("hit"), TId("mx"), TId("my")>>),
                 Func("WAITINPUT", <<>>), KW("END")>> >>
\* S5 with one variable for both coordinates:
\* SETMOUSE 0 0 100 100 hit m m / WAITINPUT / END / hit: / DRAWNUMBER m m 42
Alias == << <<Func("SETMOUSE", <<TInt(0), TInt(0), TInt(100), TInt(100),
                                 TId("hit"), TId("m"), TId("m")>>),
              Func("WAITINPUT", <<>>), KW("END"), LabelP("hit", 1),
              Func("DRAWNUMBER", <<TId("m"), TId("m"), TInt(42)>>)>> >>
\* SET n = 7 / GOSUB sub / END / sub: / SETKEYBOARD 65 L1 / WAITINPUT t / WAITINPUT /
\* L1: / RETURN: waits with a frame on the call stack
Waits == << <<SetP("n", TInt(7)), GosubP("sub"), KW("END"), LabelP("sub", 1),
              Func("SETKEYBOARD", <<TInt(65), TId("L1")>>),
              Func("WAITINPUT", <<TId("t")>>), Func("WAITINPUT", <<>>),
              LabelP("L1", 1), KW("RETURN")>> >>
\* SETWAITMODE FOCUS / WAITINPUT 100 / WAITINPUT / BEEP / END
Focus == << <<Func("SETWAITMODE", <<TKw("FOCUS")>>), Func("WAITINPUT", <<TInt(100)>>),
              Func("WAITINPUT", <<>>), KW("BEEP"), KW("END")>> >>
\* SET n = 7 / DRAWNUMBER n u 3 / DRAWTEXT u 2 "hi" / DRAWTEXT v 2 t$ / END
Reads == << <<SetP("n", TInt(7)), Func("DRAWNUMBER", <<TId("n"), TId("u"), TInt(3)>>),
              Func("DRAWTEXT", <<TId("u"), TInt(2), TStr("hi")>>),
              Func("DRAWTEXT", <<TId("v"), TInt(2), TIdS("t$")>>), KW("END")>> >>
\* DRAWBACKGROUND / RUN c$ / RUN c$ / RUN "ls" / END
Runs == << <<KW("DRAWBACKGROUND"), Func("RUN", <<TIdS("c$")>>), Func("RUN", <<TIdS("c$")>>),
             Func("RUN", <<TStr("ls")>>), KW("END")>> >>
\* MESSAGEBOX YESNO d QUESTION "Sure?" c$ pushed / DRAWNUMBER pushed d 0 / END
Dialog == << <<Func("MESSAGEBOX", <<TKw("YESNO"), TId("d"), TKw("QUESTION"), TStr("Sure?"),
                                    TIdS("c$"), TId("pushed")>>),
               Func("DRAWNUMBER", <<TId("pushed"), TId("d"), TInt(0)>>), KW("END")>> >>
\* SET d = 7 / MESSAGEBOX YESNOCANCEL d STOP "Sure?" "c" pushed / END
Dialog7 == << <<SetP("d", TInt(7)),
                Func("MESSAGEBOX", <<TKw("YESNOCANCEL"), TId("d"), TKw("STOP"), TStr("Sure?"),
                                     TStr("c"), TId("pushed")>>), KW("END")>> >>
\* Trees the parser rejects in the new commands
Rejected2 ==
    { << <<Func("RUN", <<TInt(1)>>)>> >>,
      << <<Func("SETWAITMODE", <<TKw("Focus")>>)>> >>,
      << <<Func("SETKEYBOARD", <<TInt(65)>>)>> >>,
      << <<Func("SETMENU", <<TStr("File"), TKw("IGNORE"), TStr("Open")>>)>> >>,
      << <<Func("MESSAGEBOX", <<TKw("OK"), TInt(1), TKw("NOICON"), TStr("t"), TStr("c"),
                                TId("p"), TInt(9)>>)>> >> }

\* SET v1 = 1 / ... / SET vn = n, followed by the given parts
ManyVars(n, then) ==
    << [k \in 1..n |-> SetP("v" \o ToString(k), TInt(k))] \o then >>
\* SETMENU sa$ IGNORE ENDPOPUP ... sb$ IGNORE ENDPOPUP: the categories from..to
MenuOf(from, to) ==
    Part("command_func",
         <<TKw("SETMENU")>> \o
         [k \in 1..(3 * (to - from + 1)) |->
             CASE k % 3 = 1 -> TIdS("s" \o ToString(from + (k - 1) \div 3) \o "$")
               [] k % 3 = 2 -> TKw("IGNORE")
               [] k % 3 = 0 -> TKw("ENDPOPUP")], 1)
\* Menus of PerMenu categories named by the string variables s1$ ... sn$, then END
PerMenu == 20
ManyStrs(n) ==
    << [c \in 1..((n + PerMenu - 1) \div PerMenu) |->
           MenuOf((c - 1) * PerMenu + 1,
                  IF c * PerMenu < n THEN c * PerMenu ELSE n)] \o <<KW("END")>> >>
\* l1: / ... / ln:, followed by the given parts
ManyLabels(n, then) ==
    << [k \in 1..n |-> LabelP("l" \o ToString(k), 1)] \o then >>

\* Programs at and one past the caps of pedantic mode
AtTheCaps ==
    { ManyVars(MaxVars - 1, <<Func("DRAWNUMBER", <<TId("a"), TId("b"), TInt(0)>>)>>),
      ManyVars(MaxVars, <<SetP("w", TInt(1))>>),
      ManyVars(MaxVars, <<SetP("v1", TInt(2))>>),
      ManyVars(MaxVars, <<Func("DRAWNUMBER", <<TId("v1"), TId("v2"), TInt(0)>>),
                          Func("DRAWNUMBER", <<TId("v1"), TId("u"), TInt(0)>>)>>),
      ManyVars(MaxVars - 1, <<Func("MESSAGEBOX",
                                   <<TKw("OK"), TId("d"), TKw("NOICON"), TStr("t"),
                                     TStr("c"), TId("pushed")>>)>>),
      ManyStrs(MaxVarsStr), ManyStrs(MaxVarsStr + 1),
      ManyLabels(MaxLabels, <<KW("END")>>),
      ManyLabels(MaxLabels + 1, <<KW("END")>>),
      ManyLabels(MaxLabels, <<LabelP("l1", 1)>>) }

\* Labels off the first column: after a command, declared before at column 1,
\* and as the label that reaches and that passes the cap
Indented ==
    { << <<KW("BEEP"), LabelAt("bad", 2, 3), KW("END")>> >>,
      << <<LabelP("bad", 1), KW("BEEP")>>, <<LabelAt("bad", 3, 2), KW("END")>> >>,
      ManyLabels(MaxLabels - 1, <<LabelAt("bad", MaxLabels, 3)>>),
      ManyLabels(MaxLabels, <<LabelAt("bad", MaxLabels + 1, 3)>>) }

\* SETMOUSE x1 y1 x2 y2 hit mx my / WAITINPUT / END / hit: / END for regions
\* with the click at (50, 60) on, just inside and just outside each bound
EdgeRegions ==
    { <<50, 0, 100, 100>>, <<51, 0, 100, 100>>, <<0, 0, 50, 100>>, <<0, 0, 49, 100>>,
      <<0, 59, 100, 100>>, <<0, 60, 100, 100>>, <<0, 0, 100, 60>>, <<0, 0, 100, 59>> }
Edges ==
    { << <<Func("SETMOUSE", <<TInt(r[1]), TInt(r[2]), TInt(r[3]), TInt(r[4]),
                              TId("hit"), TId("mx"), TId("my")>>),
           Func("WAITINPUT", <<>>), KW("END"), LabelP("hit", 1), KW("END")>> >> :
      r \in EdgeRegions }

\* SETMOUSE 0 0 100 100 gone mx my / WAITINPUT / END: the region's label is not
\* declared
Stray == << <<Func("SETMOUSE", <<TInt(0), TInt(0), TInt(100), TInt(100),
                                 TId("gone"), TId("mx"), TId("my")>>),
              Func("WAITINPUT", <<>>), KW("END")>> >>

\* SET k = 65 / SETKEYBOARD k one 65 two / WAITINPUT / END / one: / BEEP / END /
\* two: / END: a variable and a literal for the same key
TwoNames == << <<SetP("k", TInt(65)),
                 Func("SETKEYBOARD", <<TId("k"), TId("one"), TInt(65), TId("two")>>),
                 Func("WAITINPUT", <<>>), KW("END"), LabelP("one", 1), KW("BEEP"),
                 KW("END"), LabelP("two", 1), KW("END")>> >>

\* SETKEYBOARD 65 key / SETMOUSE 0 0 100 100 hit mx my 50 50 60 60 menu mx my /
\* SETMENU "Go" menu ENDPOPUP / WAITINPUT / END / key: / hit: / menu: / END:
\* handlers of the three kinds at once, two regions over the click at (50, 60)
Mixed == << <<Func("SETKEYBOARD", <<TInt(65), TId("key")>>),
              Func("SETMOUSE", <<TInt(0), TInt(0), TInt(100), TInt(100),
                                 TId("hit"), TId("mx"), TId("my")>>
                               \o <<TInt(50), TInt(50), TInt(60), TInt(60),
                                    TId("menu"), TId("mx"), TId("my")>>),
              Func("SETMENU", <<TStr("Go"), TId("menu"), TKw("ENDPOPUP")>>),
              Func("WAITINPUT", <<>>), KW("END"), LabelP("key", 1), LabelP("hit", 1),
              LabelP("menu", 1), KW("END")>> >>

\* SETMOUSE 0 0 100 100 hit mx my / WAITINPUT 1 / WAITINPUT / END / hit: / END:
\* clicks can be queued during the timed wait
Stale == << <<Func("SETMOUSE", <<TInt(0), TInt(0), TInt(100), TInt(100),
                                 TId("hit"), TId("mx"), TId("my")>>),
              Func("WAITINPUT", <<TInt(1)>>), Func("WAITINPUT", <<>>), KW("END"),
              LabelP("hit", 1), KW("END")>> >>

Inputs == {Keys, Stray, TwoNames, Mixed, Stale, SameKey, Rekey, Remouse, Remenu, Inverted, Alias, Waits, Focus, Reads,
           Runs, Dialog, Dialog7} \cup KeySources \cup Rejected2 \cup Edges

Sources == ShortSources \cup ArithSources \cup IfSources \cup Scenarios \cup Inputs
           \cup AtTheCaps \cup Indented

----------------------------------------------------------------------------
(* vm.rs: operand evaluation *)

\* Mutant of cmp: <= and >= compare strictly
cmp_strict(op, i1, i2) ==
    CASE op = "=" -> i1 = i2
      [] op \in {"<", "<="} -> i1 < i2
      [] op \in {">", ">="} -> i1 > i2
      [] op = "<>" -> i1 # i2

\* ir::LogicalOperator::cmp
cmp(op, i1, i2) ==
    CASE op = "=" -> i1 = i2
      [] op = "<" -> i1 < i2
      [] op = ">" -> i1 > i2
      [] op = "<=" -> i1 <= i2
      [] op = ">=" -> i1 >= i2
      [] op = "<>" -> i1 # i2

None == [some |-> FALSE, v |-> 0]
Some(v) == [some |-> TRUE, v |-> v]

\* Mutant of checked_add: u16::wrapping_add
wrapping_add(a, b) == Some((a + b) % (U16Max + 1))

\* u16::checked_add, checked_sub, checked_mul, checked_div
checked_add(a, b) == IF a + b > U16Max THEN None ELSE Some(a + b)
checked_sub(a, b) == IF a < b THEN None ELSE Some(a - b)
\* (the product is formed only when it fits, as the model's integers are 32 bits wide)
checked_mul(a, b) == IF b # 0 /\ a > U16Max \div b THEN None ELSE Some(a * b)
checked_div(a, b) == IF b = 0 THEN None ELSE Some(a \div b)

\* ir::MathOperator::eval
eval(op, i1, i2) ==
    CASE op = "+" -> checked_add(i1, i2)
      [] op = "-" -> checked_sub(i1, i2)
      [] op = "*" -> checked_mul(i1, i2)
      [] op = "/" -> checked_div(i1, i2)

\* The outcome of an evaluation: a value and the integer store it leaves
VmOk(v, vs) == [ok |-> TRUE, v |-> v, vars |-> vs, err |-> "none"]
VmErr(e, vs) == [ok |-> FALSE, v |-> 0, vars |-> vs, err |-> e]

\* Mutant of set_variable: the cap is checked with > instead of >=
set_variable_over(vs, ident, val, cfg) ==
    IF cfg.pedantic /\ Len0(vs) > MaxVars
    THEN VmErr("ExcessVariablesError", vs)
    ELSE VmOk(0, Insert(vs, ident, val))

\* Mutant of set_variable: the store is left with the one variable written
set_variable_alone(vs, ident, val, cfg) ==
    IF cfg.pedantic /\ Len0(vs) >= MaxVars
    THEN VmErr("ExcessVariablesError", vs)
    ELSE VmOk(0, [x \in {ident} |-> val])

\* VM::set_variable
set_variable(vs, ident, val, cfg) ==
    IF cfg.pedantic /\ Len0(vs) >= MaxVars
    THEN VmErr("ExcessVariablesError", vs)
    ELSE VmOk(0, Insert(vs, ident, val))

\* Mutant of get_integer: a variable without a binding is defined whatever the cap
get_integer_uncapped(vs, i, cfg) ==
    IF i.kind = "Literal" THEN VmOk(i.val, vs)
    ELSE IF i.ident \in DOMAIN vs THEN VmOk(vs[i.ident], vs)
    ELSE VmOk(0, Insert(vs, i.ident, 0))

\* Mutant of get_integer: a variable without a binding reads as 0 and stays unbound
get_integer_unbound(vs, i, cfg) ==
    IF i.kind = "Literal" THEN VmOk(i.val, vs)
    ELSE IF i.ident \in DOMAIN vs THEN VmOk(vs[i.ident], vs)
    ELSE VmOk(0, vs)

\* VM::get_integer
get_integer(vs, i, cfg) ==
    IF i.kind = "Literal" THEN VmOk(i.val, vs)
    ELSE IF i.ident \in DOMAIN vs THEN VmOk(vs[i.ident], vs)
    ELSE LET r == set_variable(vs, i.ident, 0, cfg) IN
         IF r.ok THEN VmOk(0, r.vars) ELSE r

\* get_integers!: the operands in order, stopping at the first error
RECURSIVE get_integers(_, _, _)
get_integers(vs, is, cfg) ==
    IF is = <<>> THEN VmOk(<<>>, vs)
    ELSE LET r == get_integer(vs, Head(is), cfg) IN
         IF ~r.ok THEN r
         ELSE LET rest == get_integers(r.vars, Tail(is), cfg) IN
              IF ~rest.ok THEN rest ELSE VmOk(<<r.v>> \o rest.v, rest.vars)

\* VM::set_variable_str
set_variable_str(vs, ident, val, cfg) ==
    IF cfg.pedantic /\ Len0(vs) >= MaxVarsStr
    THEN VmErr("ExcessVariablesStrError", vs)
    ELSE VmOk(0, Insert(vs, ident, val))

\* VM::get_str
get_str(vs, s, cfg) ==
    IF s.kind = "Literal" THEN VmOk(s.val, vs)
    ELSE IF s.ident \in DOMAIN vs THEN VmOk(vs[s.ident], vs)
    ELSE LET r == set_variable_str(vs, s.ident, "", cfg) IN
         IF r.ok THEN VmOk("", r.vars) ELSE r

\* get_strings!: the operands in order, stopping at the first error
RECURSIVE get_strings(_, _, _)
get_strings(vs, ss, cfg) ==
    IF ss = <<>> THEN VmOk(<<>>, vs)
    ELSE LET r == get_str(vs, Head(ss), cfg) IN
         IF ~r.ok THEN r
         ELSE LET rest == get_strings(r.vars, Tail(ss), cfg) IN
              IF ~rest.ok THEN rest ELSE VmOk(<<r.v>> \o rest.v, rest.vars)

\* Mutant of goto_label: a label that is not in the table restarts the program
goto_label_or_start(label) ==
    IF label \in DOMAIN program.labels THEN Ok(program.labels[label]) ELSE Ok(0)

\* VM::goto_label: the new ip, or NonexistentLabelError
goto_label(label) ==
    IF label \in DOMAIN program.labels THEN Ok(program.labels[label])
    ELSE Err("NonexistentLabelError")

\* Mutant of incr_ip: the command after the next one is the one to run
incr_ip_twice(i) == i + 2

\* incr_ip!
incr_ip(i) == i + 1

----------------------------------------------------------------------------
(* The host behind the VMSys trait: vm.rs types, sys_gtk.rs input handling *)

NoCallbacks == [label |-> "", x |-> "", y |-> ""]
HostRet(kind) == [kind |-> kind, label |-> "", x |-> 0, y |-> 0, callbacks |-> NoCallbacks]
\* Ok(v) of message_box: the u16 is held in x
HostVal(v) == [HostRet("Ok") EXCEPT !.x = v]
InputGoto(label) == [HostRet("Goto") EXCEPT !.label = label]
InputMouse(callbacks, x, y) ==
    [HostRet("Mouse") EXCEPT !.callbacks = callbacks, !.x = x, !.y = y]
HostCall(fn, args, ret) == [fn |-> fn, args |-> args, ret |-> ret]

\* vm::Key; a VirtualKey is its variant and payload (a char by its code, the
\* number of an F key), a PhysicalKey its chr and ctrl
KeyVirtual(vk) == [kind |-> "Virtual", vk |-> vk]
KeyPhysical(chr, ctrl) == [kind |-> "Physical", vk |-> <<chr, IF ctrl THEN 1 ELSE 0>>]

\* The codes of impl TryFrom<u16> for VirtualKey that map to a variant without payload
VirtualKeyNames ==
    8 :> "BackSpace" @@ 9 :> "Tab" @@ 12 :> "NumPad5NoLock" @@ 13 :> "Enter"
    @@ 16 :> "Shift" @@ 17 :> "Ctrl" @@ 18 :> "Alt" @@ 19 :> "Pause"
    @@ 20 :> "CapsLock" @@ 27 :> "Escape" @@ 32 :> "Space" @@ 33 :> "PgUp"
    @@ 34 :> "PgDn" @@ 35 :> "End" @@ 36 :> "Home" @@ 37 :> "LeftArrow"
    @@ 38 :> "UpArrow" @@ 39 :> "RightArrow" @@ 40 :> "DownArrow"
    @@ 44 :> "PrintScreen" @@ 45 :> "Insert" @@ 46 :> "Delete"
    @@ 144 :> "NumLock" @@ 145 :> "ScrollLock" @@ 186 :> "ColonOrSemiColon"
    @@ 187 :> "PlusOrEqual" @@ 188 :> "LessOrComma" @@ 189 :> "UnderscoreOrHyphen"
    @@ 190 :> "GreaterOrPeriod" @@ 191 :> "QuestionOrSlash"
    @@ 192 :> "TildeOrBackwardsSingleQuote" @@ 219 :> "LeftCurlyOrLeftSquare"
    @@ 220 :> "PipeOrBackslash" @@ 221 :> "RightCurlyOrRightSquare"
    @@ 222 :> "DoubleQuoteOrSingleQuote"

\* Mutant of VirtualKeyFrom: every code below 256 is taken for a key
VirtualKeyFrom_any(value) ==
    IF value < 256 THEN Ok(<<"AlNum", value>>) ELSE Err("()")

\* impl TryFrom<u16> for VirtualKey
VirtualKeyFrom(value) ==
    CASE value \in DOMAIN VirtualKeyNames -> Ok(<<VirtualKeyNames[value], 0>>)
      [] value \in 48..57 -> Ok(<<"AlNum", value>>)
      [] value \in 65..90 -> Ok(<<"AlNum", value>>)
      [] value \in 96..105 -> Ok(<<"NumPad", value - 48>>)
      [] value \in {106, 107} -> Ok(<<"NumPad", value - 64>>)
      [] value \in 109..111 -> Ok(<<"NumPad", value - 64>>)
      [] value \in 112..127 -> Ok(<<"F", value - 111>>)
      [] OTHER -> Err("()")

\* DrawCtx.scale as DrawCtx::new sets it (Coordinates::Pixel)
scale == 1
scaled(x) == x * scale

\* Mutant of set_keyboard: the new bindings are added to the ones in place
set_keyboard_merged(params) ==
    [k \in (DOMAIN host_keyboard) \cup (DOMAIN params) |->
        IF k \in DOMAIN params THEN params[k] ELSE host_keyboard[k]]

\* VMSysGtk::set_keyboard: input_ctx.keyboard = params
set_keyboard(params) == params

\* The labels of a menu in the order of its items: menu_item_conv on the item
\* of each category, then on the Items among its members
RECURSIVE member_labels(_)
member_labels(members) ==
    IF members = <<>> THEN <<>>
    ELSE (IF Head(members).kind = "Item" /\ Head(members).label.some
          THEN <<Head(members).label.ident>> ELSE <<>>)
         \o member_labels(Tail(members))

RECURSIVE menu_labels(_)
menu_labels(menu) ==
    IF menu = <<>> THEN <<>>
    ELSE (IF Head(menu).item.label.some THEN <<Head(menu).item.label.ident>> ELSE <<>>)
         \o member_labels(Head(menu).members)
         \o menu_labels(Tail(menu))

\* The items of a menu in the order menu_item_conv is called on them: the item
\* of each category, then the Items among its members
RECURSIVE member_items(_)
member_items(members) ==
    IF members = <<>> THEN <<>>
    ELSE (IF Head(members).kind = "Item" THEN <<Head(members)>> ELSE <<>>)
         \o member_items(Tail(members))

RECURSIVE menu_items(_)
menu_items(menu) ==
    IF menu = <<>> THEN <<>>
    ELSE <<Head(menu).item>> \o member_items(Head(menu).members) \o menu_items(Tail(menu))

\* VMSysGtk::set_menu: input_ctx.menu is emptied, then each item with a label
\* is inserted under key input_ctx.menu.len()
set_menu(menu) ==
    LET ls == menu_labels(menu) IN [k \in 0..(Len(ls) - 1) |-> ls[k + 1]]

\* Mutant of set_mouse: the new regions are added after the ones in place
set_mouse_extended(regions) == host_mouse \o regions

\* VMSysGtk::set_mouse: input_ctx.mouse = the regions, scaled
set_mouse(regions) ==
    [k \in 1..Len(regions) |->
        [x1 |-> scaled(regions[k].x1), y1 |-> scaled(regions[k].y1),
         x2 |-> scaled(regions[k].x2), y2 |-> scaled(regions[k].y2),
         callbacks |-> regions[k].callbacks]]

\* Mutant of contains: the lower y bound is inclusive like the other three
contains_closed(region, x, y) ==
    region.x1 <= x /\ region.y1 <= y /\ region.x2 >= x /\ region.y2 >= y

\* MouseRegion::contains
contains(region, x, y) ==
    region.x1 <= x /\ region.y1 < y /\ region.x2 >= x /\ region.y2 >= y

\* InputQueue::new, InputQueue::clear
EmptyQueue == [keyboard |-> <<>>, mouse |-> <<>>, menu |-> <<>>, closed |-> FALSE]
clear(q) == [q EXCEPT !.keyboard = <<>>, !.mouse = <<>>, !.menu = <<>>]

\* The events of the window: a key press, a button press on the drawing
\* area, the activation of a menu item, the delete event
KeyPress(keyval) == [kind |-> "key", keyval |-> keyval, x |-> 0, y |-> 0, item |-> 0]
Click(x, y) == [kind |-> "click", keyval |-> "", x |-> x, y |-> y, item |-> 0]
Activate(p) == [kind |-> "menu", keyval |-> "", x |-> 0, y |-> 0, item |-> p]
Delete == [kind |-> "delete", keyval |-> "", x |-> 0, y |-> 0, item |-> 0]

\* eventkey_conv for the keys a, A, Escape and F1
eventkey_conv(keyval) ==
    CASE keyval = "a" -> <<KeyVirtual(<<"AlNum", 65>>), KeyPhysical("a", FALSE)>>
      [] keyval = "A" -> <<KeyVirtual(<<"AlNum", 65>>), KeyPhysical("A", FALSE)>>
      [] keyval = "Escape" -> <<KeyVirtual(<<"Escape", 0>>)>>
      [] keyval = "F1" -> <<KeyVirtual(<<"F", 1>>)>>
      [] OTHER -> <<>>

\* The keys pressed and the places clicked in the model
KeyVals == {"a", "Escape"}
Clicks == { <<50, 60>>, <<0, 65535>> }

\* The events that can arrive: the menu items on display are those of the
\* last set_menu (the others were removed from the menu bar), with or without
\* a label
HostEvents ==
    { KeyPress(k) : k \in KeyVals } \cup { Click(c[1], c[2]) : c \in Clicks }
    \cup { Activate(p) : p \in DOMAIN menu_bar } \cup { Delete }

\* Mutant of menu_key: the key of an item is its place among all the items
menu_key_place(p) == p - 1

\* menu_item_conv: let key = input_ctx.menu.len(), the number of items with a
\* label made before item p by the same set_menu
menu_key(p) == Cardinality({ o \in 1..(p - 1) : menu_bar[o].label.some })

\* The handlers VMSysGtk::new connects to the window
handle(q, e) ==
    CASE e.kind = "key" -> [q EXCEPT !.keyboard = @ \o eventkey_conv(e.keyval)]
      [] e.kind = "click" -> [q EXCEPT !.mouse = Append(@, <<e.x, e.y>>)]
      [] e.kind = "menu" -> IF menu_bar[e.item].label.some
                            THEN [q EXCEPT !.menu = Append(@, menu_key(e.item))]
                            ELSE q
      [] e.kind = "delete" -> [q EXCEPT !.closed = TRUE]

\* while gtk::events_pending() { gtk::main_iteration() } on the given events
RECURSIVE pump(_, _)
pump(q, events) ==
    IF events = <<>> THEN q ELSE pump(handle(q, Head(events)), Tail(events))

RECURSIVE EventSeqs(_)
EventSeqs(n) ==
    IF n = 0 THEN { <<>> }
    ELSE LET shorter == EventSeqs(n - 1) IN
         shorter \cup { Append(b, e) : b \in shorter, e \in HostEvents }

QueueLen(q) == Len(q.keyboard) + Len(q.mouse) + Len(q.menu)

\* The queues a pump may leave: at most MaxEvents events arrive, and the
\* queue holds at most MaxQueue entries
Pumped(q) ==
    { p \in { pump(q, b) : b \in EventSeqs(MaxEvents) } : QueueLen(p) <= MaxQueue }

\* The index of the first entry of a queue that has a handler, 0 if none
FirstKey(q) ==
    IF \E i \in 1..Len(q.keyboard) : q.keyboard[i] \in DOMAIN host_keyboard
    THEN CHOOSE i \in 1..Len(q.keyboard) :
            /\ q.keyboard[i] \in DOMAIN host_keyboard
            /\ \A j \in 1..(i - 1) : q.keyboard[j] \notin DOMAIN host_keyboard
    ELSE 0
Hit(click) == { r \in 1..Len(host_mouse) : contains(host_mouse[r], click[1], click[2]) }
FirstClick(q) ==
    IF \E i \in 1..Len(q.mouse) : Hit(q.mouse[i]) # {}
    THEN CHOOSE i \in 1..Len(q.mouse) :
            /\ Hit(q.mouse[i]) # {}
            /\ \A j \in 1..(i - 1) : Hit(q.mouse[j]) = {}
    ELSE 0
FirstRegion(click) == CHOOSE r \in Hit(click) : \A o \in Hit(click) : r <= o
FirstMenu(q) ==
    IF \E i \in 1..Len(q.menu) : q.menu[i] \in DOMAIN host_menu
    THEN CHOOSE i \in 1..Len(q.menu) :
            /\ q.menu[i] \in DOMAIN host_menu
            /\ \A j \in 1..(i - 1) : q.menu[j] \notin DOMAIN host_menu
    ELSE 0

\* Some entry of the queue has a handler
Pending(q) == FirstKey(q) # 0 \/ FirstClick(q) # 0 \/ FirstMenu(q) # 0

\* (mouse.0 / scale) as u16: the cast saturates
as_u16(x) == IF x > U16Max THEN U16Max ELSE IF x < 0 THEN 0 ELSE x

\* An answer of the host together with the queue it leaves
Answer(ret, q) == [ret |-> ret, queue |-> q]

\* Mutant of process_queue: the clicks are looked at before the keys
process_queue_clicks_first(q) ==
    IF q.closed THEN Answer(HostRet("End"), q)
    ELSE IF FirstClick(q) # 0
    THEN LET click == q.mouse[FirstClick(q)] IN
         Answer(InputMouse(host_mouse[FirstRegion(click)].callbacks,
                           as_u16(click[1] \div scale), as_u16(click[2] \div scale)), q)
    ELSE IF FirstKey(q) # 0
    THEN Answer(InputGoto(host_keyboard[q.keyboard[FirstKey(q)]]), q)
    ELSE IF FirstMenu(q) # 0
    THEN Answer(InputGoto(host_menu[q.menu[FirstMenu(q)]]), q)
    ELSE Answer(HostRet("None"), clear(q))

\* InputCtx::process_queue
process_queue(q) ==
    IF q.closed THEN Answer(HostRet("End"), q)
    ELSE IF FirstKey(q) # 0
    THEN Answer(InputGoto(host_keyboard[q.keyboard[FirstKey(q)]]), q)
    ELSE IF FirstClick(q) # 0
    THEN LET click == q.mouse[FirstClick(q)] IN
         Answer(InputMouse(host_mouse[FirstRegion(click)].callbacks,
                           as_u16(click[1] \div scale), as_u16(click[2] \div scale)), q)
    ELSE IF FirstMenu(q) # 0
    THEN Answer(InputGoto(host_menu[q.menu[FirstMenu(q)]]), q)
    ELSE Answer(HostRet("None"), clear(q))

\* Mutant of wait_input: what is queued when an untimed wait starts is kept
wait_input_kept(ms) ==
    CASE wait_mode = "NULL" /\ ms.some ->
            { Answer(IF p.closed THEN HostRet("End") ELSE HostRet("None"), p) :
                p \in Pumped(queue) }
      [] wait_mode = "NULL" /\ ~ms.some ->
            LET first == Pumped(queue) IN
            { Answer(HostRet("None"), p) : p \in { f \in first : f.closed } }
            \cup { a \in { process_queue(p) :
                             p \in UNION { Pumped(f) : f \in { g \in first : ~g.closed } } } :
                     a.ret.kind # "None" }
      [] wait_mode = "FOCUS" /\ ms.some ->
            { Answer(HostRet("None"), queue) }
            \cup { Answer(IF p.closed THEN HostRet("End") ELSE HostRet("None"), p) :
                     p \in Pumped(queue) }
      [] wait_mode = "FOCUS" /\ ~ms.some ->
            { Answer(HostRet("None"), queue) }

\* Mutant of wait_input: the queue is processed whatever the mode and the timeout
wait_input_processed(ms) == { process_queue(p) : p \in Pumped(queue) }

\* VMSysGtk::wait_input: the answers it may give and the queue each leaves.
\* NULL with a timeout pumps until the time is over; NULL without one pumps,
\* clears the queue and, while the window is visible, pumps and processes the
\* queue until there is an input; FOCUS with a timeout pumps until the window
\* has the focus; FOCUS without one returns at once.
wait_input(ms) ==
    CASE wait_mode = "NULL" /\ ms.some ->
            { Answer(IF p.closed THEN HostRet("End") ELSE HostRet("None"), p) :
                p \in Pumped(queue) }
      [] wait_mode = "NULL" /\ ~ms.some ->
            LET first == { clear(p) : p \in Pumped(queue) } IN
            { Answer(HostRet("None"), p) : p \in { f \in first : f.closed } }
            \cup { a \in { process_queue(p) :
                             p \in UNION { Pumped(f) : f \in { g \in first : ~g.closed } } } :
                     a.ret.kind # "None" }
      [] wait_mode = "FOCUS" /\ ms.some ->
            { Answer(HostRet("None"), queue) }
            \cup { Answer(IF p.closed THEN HostRet("End") ELSE HostRet("None"), p) :
                     p \in Pumped(queue) }
      [] wait_mode = "FOCUS" /\ ~ms.some ->
            { Answer(HostRet("None"), queue) }

\* The buttons of a dialog: ResponseType::Other(1), (2), (3)
Buttons(typ) ==
    CASE typ = "OK" -> {1}
      [] typ \in {"OKCANCEL", "YESNO"} -> {1, 2}
      [] typ = "YESNOCANCEL" -> {1, 2, 3}

\* Mutant of message_box: a dialog that went without a button answers 0
message_box_zero(typ, default_button) ==
    { Answer(HostVal(b), p) : b \in Buttons(typ) \cup {0}, p \in Pumped(queue) }

\* VMSysGtk::message_box: the button chosen, or default_button when the
\* dialog went without one; the events pending afterwards are pumped
message_box(typ, default_button) ==
    { Answer(HostVal(b), p) : b \in Buttons(typ) \cup {default_button}, p \in Pumped(queue) }

----------------------------------------------------------------------------
(* Initial state: main() with the options parsed; VM::new sets ip 0 and empty stores *)

\* impl TryFrom<&str> for Standard
StandardFrom(value) ==
    CASE value = "win3.0" -> Ok("WIN3_0")
      [] value = "win3.1" -> Ok("WIN3_1")
      [] OTHER -> Err("Unrecognized standard")

\* #[default] of Standard
StandardDefault == "WIN3_0"

\* The values --std is given with in the model, None when it is not given; the
\* programs run with a value given
NoStd == [some |-> FALSE, v |-> ""]
SomeStd(v) == [some |-> TRUE, v |-> v]
StdValues == {"win3.0", "win3.1", "win95", "WIN3.1", "3.1", ""}
StdSources == {S1, Runs, Dialog}

Init ==
    /\ source \in Sources
    /\ matches \in [pedantic : BOOLEAN, std : {NoStd} \cup { SomeStd(v) : v \in StdValues }]
    /\ matches.std.some => source \in StdSources
    /\ config = [pedantic |-> FALSE, standard |-> "unset"]
    /\ pc = "main"
    /\ program = [commands |-> <<>>, labels |-> EmptyMap]
    /\ parse_error = "none"
    /\ parse_error_at = NoLoc
    /\ ip = 0
    /\ vars = EmptyMap
    /\ vars_str = EmptyMap
    /\ call_stack = <<>>
    /\ error = "none"
    /\ host_calls = <<>>
    /\ host_mouse = <<>>
    /\ gosub_log = <<>>
    /\ balance = 0
    /\ steps = 0
    /\ host_keyboard = EmptyMap
    /\ host_menu = EmptyMap
    /\ menu_bar = <<>>
    /\ wait_mode = "NULL"
    /\ stale = FALSE
    /\ queue = EmptyQueue

\* main(): Program::from_src, then VM::new and run, or the parse error
\* main(): cfg::Config from the parsed options, or the panic on a value of
\* --std that is no Standard
Main ==
    /\ pc = "main"
    /\ \E standard \in {IF matches.std.some THEN StandardFrom(matches.std.v)
                         ELSE Ok(StandardDefault)} :
       IF standard.ok
       THEN /\ config' = [pedantic |-> matches.pedantic, standard |-> standard.v]
            /\ pc' = "parse"
       ELSE pc' = "panic" /\ UNCHANGED config
    /\ UNCHANGED <<matches, source, program, parse_error, parse_error_at, ip, vars, vars_str, call_stack,
                   error, host_calls, host_mouse, gosub_log, balance, steps, host_keyboard, host_menu, menu_bar,
                   wait_mode, stale, queue>>

Parse ==
    /\ pc = "parse"
    /\ \E r \in {from_src(source, config)} :
       IF r.ok
       THEN program' = r.v /\ pc' = "run" /\ UNCHANGED <<parse_error, parse_error_at>>
       ELSE /\ parse_error' = r.err /\ parse_error_at' = r.v
            /\ pc' = "parse_err" /\ UNCHANGED program
    /\ UNCHANGED <<matches, source, config, ip, vars, vars_str, call_stack, error,
                   host_calls, host_mouse, gosub_log, balance, steps, host_keyboard, host_menu, menu_bar,
                   wait_mode, stale, queue>>

----------------------------------------------------------------------------
(* VM::step under VM::run: one action per command; an Err ends run with it *)

Running == pc = "run" /\ ip + 1 \in DOMAIN program.commands
Cmd == program.commands[ip + 1]
\* Mutant of Fail: the error of the step is kept but the loop of run goes on
Fail_swallowed(e) == pc' = pc /\ error' = e
Fail(e) == pc' = "err" /\ error' = e
\* The program holds no Goto, Gosub, Return and no WaitInput
Straight ==
    \A k \in DOMAIN program.commands :
        program.commands[k].cmd \notin {"Goto", "Gosub", "Return", "WaitInput"}
\* The loop of run has called step once more
Counted == steps' = IF Straight THEN steps + 1 ELSE steps
\* What no step writes, and what the steps without strings and input bindings leave
Borrowed == UNCHANGED <<matches, source, config, program, parse_error, parse_error_at>>
Fixed == Borrowed /\ UNCHANGED <<vars_str, host_keyboard, host_menu, menu_bar, wait_mode, stale, queue>>

\* Command::End => return Ok(false); run breaks and returns Ok(())
StepEnd ==
    /\ Running /\ Cmd.cmd = "End"
    /\ pc' = "ok"
    /\ Fixed /\ Counted
    /\ UNCHANGED <<ip, vars, call_stack, error, host_calls, host_mouse, gosub_log, balance>>

\* Command::Beep => incr_ip!(self, self.ctx.beep()?)
StepBeep ==
    /\ Running /\ Cmd.cmd = "Beep" /\ Len(host_calls) < MaxHostCalls
    /\ \E ret \in {HostRet("Ok"), HostRet("Err")} :
        /\ host_calls' = Append(host_calls, HostCall("beep", <<>>, ret))
        /\ IF ret.kind = "Ok"
           THEN ip' = incr_ip(ip) /\ UNCHANGED <<pc, error>>
           ELSE Fail("SystemError") /\ UNCHANGED ip
    /\ Fixed /\ Counted
    /\ UNCHANGED <<vars, call_stack, host_mouse, gosub_log, balance>>

\* Command::DrawBackground => incr_ip!(self, self.ctx.draw_background()?)
StepDrawBackground ==
    /\ Running /\ Cmd.cmd = "DrawBackground" /\ Len(host_calls) < MaxHostCalls
    /\ \E ret \in {HostRet("Ok"), HostRet("Err")} :
        /\ host_calls' = Append(host_calls, HostCall("draw_background", <<>>, ret))
        /\ IF ret.kind = "Ok"
           THEN ip' = incr_ip(ip) /\ UNCHANGED <<pc, error>>
           ELSE Fail("SystemError") /\ UNCHANGED ip
    /\ Fixed /\ Counted
    /\ UNCHANGED <<vars, call_stack, host_mouse, gosub_log, balance>>

\* Command::DrawNumber {x, y, n}
StepDrawNumber ==
    /\ Running /\ Cmd.cmd = "DrawNumber" /\ Len(host_calls) < MaxHostCalls
    /\ LET r == get_integers(vars, <<Cmd.x, Cmd.y, Cmd.n>>, config) IN
       /\ vars' = r.vars
       /\ IF ~r.ok
          THEN Fail(r.err) /\ UNCHANGED <<ip, host_calls>>
          ELSE \E ret \in {HostRet("Ok"), HostRet("Err")} :
                /\ host_calls' = Append(host_calls, HostCall("draw_number", r.v, ret))
                /\ IF ret.kind = "Ok"
                   THEN ip' = incr_ip(ip) /\ UNCHANGED <<pc, error>>
                   ELSE Fail("SystemError") /\ UNCHANGED ip
    /\ Fixed /\ Counted
    /\ UNCHANGED <<call_stack, host_mouse, gosub_log, balance>>

\* Command::Gosub(ident): push ip + 1, then goto_label
StepGosub ==
    /\ Running /\ Cmd.cmd = "Gosub" /\ Len(call_stack) < MaxStack
    /\ call_stack' = Append(call_stack, ip + 1)
    /\ balance' = balance + 1
    /\ LET t == goto_label(Cmd.ident) IN
       IF t.ok
       THEN /\ ip' = t.v
            /\ gosub_log' = Append(gosub_log, [at |-> ip, before |-> call_stack])
            /\ UNCHANGED <<pc, error>>
       ELSE Fail(t.err) /\ UNCHANGED <<ip, gosub_log>>
    /\ Fixed /\ Counted
    /\ UNCHANGED <<vars, host_calls, host_mouse>>

\* Mutant of pop: the oldest return address is taken
pop_first(stack) ==
    IF stack = <<>> THEN [some |-> FALSE, v |-> 0, rest |-> stack]
    ELSE [some |-> TRUE, v |-> stack[1], rest |-> SubSeq(stack, 2, Len(stack))]

\* Mutant of pop: an empty stack yields 0 (unwrap_or_default)
pop_or_zero(stack) ==
    IF stack = <<>> THEN [some |-> TRUE, v |-> 0, rest |-> stack]
    ELSE [some |-> TRUE, v |-> stack[Len(stack)], rest |-> SubSeq(stack, 1, Len(stack) - 1)]

\* call_stack.pop()
pop(stack) ==
    IF stack = <<>> THEN [some |-> FALSE, v |-> 0, rest |-> stack]
    ELSE [some |-> TRUE, v |-> stack[Len(stack)], rest |-> SubSeq(stack, 1, Len(stack) - 1)]

\* Command::Return
StepReturn ==
    /\ Running /\ Cmd.cmd = "Return"
    /\ balance' = balance - 1
    /\ LET p == pop(call_stack) IN
       /\ call_stack' = p.rest
       /\ IF p.some
          THEN /\ ip' = p.v
               /\ gosub_log' = SubSeq(gosub_log, 1, Len(gosub_log) - 1)
               /\ UNCHANGED <<pc, error>>
          ELSE Fail("CallStackExhaustedError") /\ UNCHANGED <<ip, gosub_log>>
    /\ Fixed /\ Counted
    /\ UNCHANGED <<vars, host_calls, host_mouse>>

\* Mutant of StepGoto: the jump leaves a return address like a Gosub
StepGoto_pushing ==
    /\ Running /\ Cmd.cmd = "Goto"
    /\ call_stack' = Append(call_stack, ip + 1)
    /\ LET t == goto_label(Cmd.ident) IN
       IF t.ok THEN ip' = t.v /\ UNCHANGED <<pc, error>>
       ELSE Fail(t.err) /\ UNCHANGED ip
    /\ Fixed /\ Counted
    /\ UNCHANGED <<vars, host_calls, host_mouse, gosub_log, balance>>

\* Command::Goto(ident)
StepGoto ==
    /\ Running /\ Cmd.cmd = "Goto"
    /\ LET t == goto_label(Cmd.ident) IN
       IF t.ok THEN ip' = t.v /\ UNCHANGED <<pc, error>>
       ELSE Fail(t.err) /\ UNCHANGED ip
    /\ Fixed /\ Counted
    /\ UNCHANGED <<vars, call_stack, host_calls, host_mouse, gosub_log, balance>>

\* Mutant of if_target: a comparison that fails stays at the If
if_target_stays(taken, i, goto_false) == IF taken THEN i + 1 ELSE i

\* The ip an If leaves
if_target(taken, i, goto_false) == IF taken THEN i + 1 ELSE goto_false

\* Command::If {i1, op, i2, goto_false}
StepIf ==
    /\ Running /\ Cmd.cmd = "If"
    /\ LET r == get_integers(vars, <<Cmd.i1, Cmd.i2>>, config) IN
       /\ vars' = r.vars
       /\ IF r.ok
          THEN /\ ip' = if_target(cmp(Cmd.op, r.v[1], r.v[2]), ip, Cmd.goto_false)
               /\ UNCHANGED <<pc, error>>
          ELSE Fail(r.err) /\ UNCHANGED ip
    /\ Fixed /\ Counted
    /\ UNCHANGED <<call_stack, host_calls, host_mouse, gosub_log, balance>>

\* The value a Set assigns: SetValue::Value(i) or SetValue::Expression {i1, op, i2}
set_value(vs, val, cfg) ==
    IF val.kind = "Value" THEN get_integer(vs, val.i, cfg)
    ELSE LET r == get_integers(vs, <<val.i1, val.i2>>, cfg) IN
         IF ~r.ok THEN r
         ELSE LET e == eval(val.op, r.v[1], r.v[2]) IN
              IF e.some THEN VmOk(e.v, r.vars) ELSE VmErr("MathOperationError", r.vars)

\* Mutant of StepSet: ip is advanced before the value is evaluated and stored
StepSet_advanced ==
    /\ Running /\ Cmd.cmd = "Set"
    /\ ip' = incr_ip(ip)
    /\ LET r == set_value(vars, Cmd.val, config)
           w == IF r.ok THEN set_variable(r.vars, Cmd.var, r.v, config) ELSE r
       IN /\ vars' = w.vars
          /\ IF w.ok THEN UNCHANGED <<pc, error>> ELSE Fail(w.err)
    /\ Fixed /\ Counted
    /\ UNCHANGED <<call_stack, host_calls, host_mouse, gosub_log, balance>>

\* Command::Set {var, val}
StepSet ==
    /\ Running /\ Cmd.cmd = "Set"
    /\ LET r == set_value(vars, Cmd.val, config)
           w == IF r.ok THEN set_variable(r.vars, Cmd.var, r.v, config) ELSE r
       IN /\ vars' = w.vars
          /\ IF w.ok THEN ip' = incr_ip(ip) /\ UNCHANGED <<pc, error>>
             ELSE Fail(w.err) /\ UNCHANGED ip
    /\ Fixed /\ Counted
    /\ UNCHANGED <<call_stack, host_calls, host_mouse, gosub_log, balance>>

\* The regions of a SetMouse with their operands resolved, in order
RECURSIVE mouse_regions(_, _, _)
mouse_regions(vs, params, cfg) ==
    IF params = <<>> THEN VmOk(<<>>, vs)
    ELSE LET p == Head(params)
             r == get_integers(vs, <<p.x1, p.y1, p.x2, p.y2>>, cfg)
         IN IF ~r.ok THEN r
            ELSE LET rest == mouse_regions(r.vars, Tail(params), cfg) IN
                 IF ~rest.ok THEN rest
                 ELSE VmOk(<<[x1 |-> r.v[1], y1 |-> r.v[2], x2 |-> r.v[3],
                              y2 |-> r.v[4], callbacks |-> p.callbacks]>> \o rest.v,
                           rest.vars)

\* Command::SetMouse(params)
StepSetMouse ==
    /\ Running /\ Cmd.cmd = "SetMouse" /\ Len(host_calls) < MaxHostCalls
    /\ LET r == mouse_regions(vars, Cmd.params, config) IN
       /\ vars' = r.vars
       /\ IF ~r.ok
          THEN Fail(r.err) /\ UNCHANGED <<ip, host_calls, host_mouse>>
          ELSE \E ret \in {HostRet("Ok"), HostRet("Err")} :
                /\ host_calls' = Append(host_calls, HostCall("set_mouse", r.v, ret))
                /\ IF ret.kind = "Ok"
                   THEN /\ ip' = incr_ip(ip)
                        /\ host_mouse' = set_mouse(r.v)
                        /\ UNCHANGED <<pc, error>>
                   ELSE Fail("SystemError") /\ UNCHANGED <<ip, host_mouse>>
    /\ Fixed /\ Counted
    /\ UNCHANGED <<call_stack, gosub_log, balance>>

\* Mutant of mouse_input: the coordinates go to the other variable each
mouse_input_swapped(vs, input, cfg) ==
    LET sx == set_variable(vs, input.callbacks.x, input.y, cfg) IN
    IF ~sx.ok THEN sx
    ELSE LET sy == set_variable(sx.vars, input.callbacks.y, input.x, cfg) IN
         IF ~sy.ok THEN sy
         ELSE LET t == goto_label(input.callbacks.label) IN
              IF t.ok THEN VmOk(t.v, sy.vars) ELSE VmErr(t.err, sy.vars)

\* Input::Mouse {callbacks, x, y}: both coordinates are stored, then the jump
mouse_input(vs, input, cfg) ==
    LET sx == set_variable(vs, input.callbacks.x, input.x, cfg) IN
    IF ~sx.ok THEN sx
    ELSE LET sy == set_variable(sx.vars, input.callbacks.y, input.y, cfg) IN
         IF ~sy.ok THEN sy
         ELSE LET t == goto_label(input.callbacks.label) IN
              IF t.ok THEN VmOk(t.v, sy.vars) ELSE VmErr(t.err, sy.vars)

\* What step does with the answer of wait_input: "stop" is return Ok(false)
Outcome(kind, i, vs, err) == [kind |-> kind, ip |-> i, vars |-> vs, err |-> err]

\* Mutant of wait_outcome: Input::Goto goes on with the next command
wait_outcome_goto_next(vs, input, i, cfg) ==
    CASE input.kind = "Err" -> Outcome("err", i, vs, "SystemError")
      [] input.kind \in {"None", "Goto"} -> Outcome("go", i + 1, vs, "none")
      [] input.kind = "End" -> Outcome("stop", i, vs, "none")
      [] input.kind = "Mouse" ->
            LET m == mouse_input(vs, input, cfg) IN
            IF m.ok THEN Outcome("go", m.v, m.vars, "none")
            ELSE Outcome("err", i, m.vars, m.err)

\* Mutant of wait_outcome: a wait that brought no input ends the run
wait_outcome_none_stops(vs, input, i, cfg) ==
    CASE input.kind = "Err" -> Outcome("err", i, vs, "SystemError")
      [] input.kind \in {"None", "End"} -> Outcome("stop", i, vs, "none")
      [] input.kind = "Goto" ->
            LET t == goto_label(input.label) IN
            IF t.ok THEN Outcome("go", t.v, vs, "none") ELSE Outcome("err", i, vs, t.err)
      [] input.kind = "Mouse" ->
            LET m == mouse_input(vs, input, cfg) IN
            IF m.ok THEN Outcome("go", m.v, m.vars, "none")
            ELSE Outcome("err", i, m.vars, m.err)

\* if let Some(input) = self.ctx.wait_input(milliseconds)? { match input ... } else ...
wait_outcome(vs, input, i, cfg) ==
    CASE input.kind = "Err" -> Outcome("err", i, vs, "SystemError")
      [] input.kind = "None" -> Outcome("go", i + 1, vs, "none")
      [] input.kind = "End" -> Outcome("stop", i, vs, "none")
      [] input.kind = "Goto" ->
            LET t == goto_label(input.label) IN
            IF t.ok THEN Outcome("go", t.v, vs, "none") ELSE Outcome("err", i, vs, t.err)
      [] input.kind = "Mouse" ->
            LET m == mouse_input(vs, input, cfg) IN
            IF m.ok THEN Outcome("go", m.v, m.vars, "none")
            ELSE Outcome("err", i, m.vars, m.err)

\* Command::WaitInput(milliseconds)
StepWaitInput ==
    /\ Running /\ Cmd.cmd = "WaitInput" /\ Len(host_calls) < MaxHostCalls
    /\ LET ms == Cmd.milliseconds
           r == IF ms.some THEN get_integer(vars, ms.i, config) ELSE VmOk(0, vars)
       IN IF ~r.ok
          THEN vars' = r.vars /\ Fail(r.err) /\ UNCHANGED <<ip, host_calls, queue>>
          ELSE \E a \in wait_input([some |-> ms.some, v |-> r.v])
                         \cup {Answer(HostRet("Err"), queue)} :
                LET o == wait_outcome(r.vars, a.ret, ip, config) IN
                /\ host_calls' = Append(host_calls,
                       HostCall("wait_input", IF ms.some THEN <<r.v>> ELSE <<>>, a.ret))
                /\ queue' = a.queue
                /\ vars' = o.vars
                /\ CASE o.kind = "err" -> Fail(o.err) /\ UNCHANGED ip
                     [] o.kind = "stop" -> pc' = "ok" /\ UNCHANGED <<ip, error>>
                     [] o.kind = "go" -> ip' = o.ip /\ UNCHANGED <<pc, error>>
    /\ Borrowed /\ Counted
    /\ UNCHANGED <<vars_str, call_stack, host_mouse, gosub_log, balance, host_keyboard, host_menu, menu_bar,
                   wait_mode>>
    /\ stale' = Pending(queue)

\* Command::DrawText {x, y, text}: the integers, then the strings, then the call
StepDrawText ==
    /\ Running /\ Cmd.cmd = "DrawText" /\ Len(host_calls) < MaxHostCalls
    /\ LET r == get_integers(vars, <<Cmd.x, Cmd.y>>, config)
           s == IF r.ok THEN get_strings(vars_str, <<Cmd.text>>, config)
                ELSE VmErr(r.err, vars_str)
       IN /\ vars' = r.vars
          /\ vars_str' = s.vars
          /\ IF ~s.ok
             THEN Fail(s.err) /\ UNCHANGED <<ip, host_calls>>
             ELSE \E ret \in {HostRet("Ok"), HostRet("Err")} :
                   /\ host_calls' = Append(host_calls,
                                           HostCall("draw_text", r.v \o s.v, ret))
                   /\ IF ret.kind = "Ok"
                      THEN ip' = incr_ip(ip) /\ UNCHANGED <<pc, error>>
                      ELSE Fail("SystemError") /\ UNCHANGED ip
    /\ Borrowed /\ Counted
    /\ UNCHANGED <<call_stack, host_mouse, gosub_log, balance, host_keyboard, host_menu, menu_bar,
                   wait_mode, stale, queue>>

\* Mutant of StepRun: the command is passed over without the call
StepRun_skipped ==
    /\ Running /\ Cmd.cmd = "Run" /\ Len(host_calls) < MaxHostCalls
    /\ ip' = incr_ip(ip)
    /\ Borrowed /\ Counted
    /\ UNCHANGED <<pc, error, vars, vars_str, host_calls, call_stack, host_mouse,
                   gosub_log, balance, host_keyboard, host_menu, menu_bar, wait_mode, stale, queue>>

\* Command::Run(command)
StepRun ==
    /\ Running /\ Cmd.cmd = "Run" /\ Len(host_calls) < MaxHostCalls
    /\ LET s == get_strings(vars_str, <<Cmd.command>>, config) IN
       /\ vars_str' = s.vars
       /\ IF ~s.ok
          THEN Fail(s.err) /\ UNCHANGED <<ip, host_calls>>
          ELSE \E ret \in {HostRet("Ok"), HostRet("Err")} :
                /\ host_calls' = Append(host_calls, HostCall("run", s.v, ret))
                /\ IF ret.kind = "Ok"
                   THEN ip' = incr_ip(ip) /\ UNCHANGED <<pc, error>>
                   ELSE Fail("SystemError") /\ UNCHANGED ip
    /\ Borrowed /\ Counted
    /\ UNCHANGED <<vars, call_stack, host_mouse, gosub_log, balance, host_keyboard, host_menu, menu_bar,
                   wait_mode, stale, queue>>

\* Command::MessageBox: default_button, text and caption, the call, then the
\* button pushed is stored and ip advanced
StepMessageBox ==
    /\ Running /\ Cmd.cmd = "MessageBox" /\ Len(host_calls) < MaxHostCalls
    /\ LET r == get_integers(vars, <<Cmd.default_button>>, config)
           s == IF r.ok THEN get_strings(vars_str, <<Cmd.text, Cmd.caption>>, config)
                ELSE VmErr(r.err, vars_str)
       IN /\ vars_str' = s.vars
          /\ IF ~s.ok
             THEN vars' = r.vars /\ Fail(s.err) /\ UNCHANGED <<ip, host_calls, queue>>
             ELSE \E a \in message_box(Cmd.typ, r.v[1]) \cup {Answer(HostRet("Err"), queue)} :
                   /\ host_calls' = Append(host_calls,
                          HostCall("message_box",
                                   <<Cmd.typ, r.v[1], Cmd.icon, s.v[1], s.v[2]>>, a.ret))
                   /\ queue' = a.queue
                   /\ IF a.ret.kind = "Err"
                      THEN vars' = r.vars /\ Fail("SystemError") /\ UNCHANGED ip
                      ELSE LET w == set_variable(r.vars, Cmd.button_pushed, a.ret.x, config) IN
                           /\ vars' = w.vars
                           /\ IF w.ok THEN ip' = incr_ip(ip) /\ UNCHANGED <<pc, error>>
                              ELSE Fail(w.err) /\ UNCHANGED ip
    /\ Borrowed /\ Counted
    /\ UNCHANGED <<call_stack, host_mouse, gosub_log, balance, host_keyboard, host_menu, menu_bar, wait_mode, stale>>

\* The orders in which a HashMap may hand out its keys
Orders(S) ==
    { o \in [1..Cardinality(S) -> S] :
        \A i, j \in 1..Cardinality(S) : o[i] = o[j] => i = j }

\* The keys of a SetKeyboard resolved in the given order and collected into a
\* map from vm::Key to label, a later pair replacing an earlier one of the same key
RECURSIVE keyboard_params(_, _, _, _)
keyboard_params(vs, order, params, cfg) ==
    IF order = <<>> THEN VmOk(EmptyMap, vs)
    ELSE LET r == get_integer(vs, Head(order), cfg) IN
         IF ~r.ok THEN r
         ELSE LET k == VirtualKeyFrom(r.v) IN
              IF ~k.ok THEN VmErr("InvalidVirtualKeyError", r.vars)
              ELSE LET rest == keyboard_params(r.vars, Tail(order), params, cfg) IN
                   IF ~rest.ok THEN rest
                   ELSE VmOk([x \in (DOMAIN rest.v) \cup {KeyVirtual(k.v)} |->
                                 IF x \in DOMAIN rest.v THEN rest.v[x]
                                 ELSE params[Head(order)]],
                             rest.vars)

\* Command::SetKeyboard(hashmap)
StepSetKeyboard ==
    /\ Running /\ Cmd.cmd = "SetKeyboard" /\ Len(host_calls) < MaxHostCalls
    /\ \E order \in Orders(DOMAIN Cmd.params) :
        LET r == keyboard_params(vars, order, Cmd.params, config) IN
        /\ vars' = r.vars
        /\ IF ~r.ok
           THEN Fail(r.err) /\ UNCHANGED <<ip, host_calls, host_keyboard>>
           ELSE \E ret \in {HostRet("Ok"), HostRet("Err")} :
                 /\ host_calls' = Append(host_calls, HostCall("set_keyboard", r.v, ret))
                 /\ IF ret.kind = "Ok"
                    THEN /\ ip' = incr_ip(ip)
                         /\ host_keyboard' = set_keyboard(r.v)
                         /\ UNCHANGED <<pc, error>>
                    ELSE Fail("SystemError") /\ UNCHANGED <<ip, host_keyboard>>
    /\ Borrowed /\ Counted
    /\ UNCHANGED <<vars_str, call_stack, host_mouse, gosub_log, balance, host_menu, menu_bar, wait_mode, stale,
                   queue>>

\* The members of a category with the names of the Items resolved
RECURSIVE menu_members(_, _, _)
menu_members(vss, members, cfg) ==
    IF members = <<>> THEN VmOk(<<>>, vss)
    ELSE LET m == Head(members)
             n == IF m.kind = "Item" THEN get_str(vss, m.name, cfg) ELSE VmOk("", vss)
         IN IF ~n.ok THEN n
            ELSE LET rest == menu_members(n.vars, Tail(members), cfg) IN
                 IF ~rest.ok THEN rest
                 ELSE VmOk(<<[kind |-> m.kind, name |-> n.v, label |-> m.label]>> \o rest.v,
                           rest.vars)

\* The categories of a SetMenu with their names resolved, in order
RECURSIVE menu_categories(_, _, _)
menu_categories(vss, menu, cfg) ==
    IF menu = <<>> THEN VmOk(<<>>, vss)
    ELSE LET c == Head(menu)
             n == get_str(vss, c.item.name, cfg)
         IN IF ~n.ok THEN n
            ELSE LET m == menu_members(n.vars, c.members, cfg) IN
                 IF ~m.ok THEN m
                 ELSE LET rest == menu_categories(m.vars, Tail(menu), cfg) IN
                      IF ~rest.ok THEN rest
                      ELSE VmOk(<<[item |-> [kind |-> "Item", name |-> n.v,
                                             label |-> c.item.label],
                                   members |-> m.v]>> \o rest.v,
                                rest.vars)

\* Command::SetMenu(menu)
StepSetMenu ==
    /\ Running /\ Cmd.cmd = "SetMenu" /\ Len(host_calls) < MaxHostCalls
    /\ LET s == menu_categories(vars_str, Cmd.menu, config) IN
       /\ vars_str' = s.vars
       /\ IF ~s.ok
          THEN Fail(s.err) /\ UNCHANGED <<ip, host_calls, host_menu, menu_bar>>
          ELSE \E ret \in {HostRet("Ok"), HostRet("Err")} :
                /\ host_calls' = Append(host_calls, HostCall("set_menu", s.v, ret))
                /\ IF ret.kind = "Ok"
                   THEN /\ ip' = incr_ip(ip)
                        /\ host_menu' = set_menu(s.v)
                        /\ menu_bar' = menu_items(s.v)
                        /\ UNCHANGED <<pc, error>>
                   ELSE Fail("SystemError") /\ UNCHANGED <<ip, host_menu, menu_bar>>
    /\ Borrowed /\ Counted
    /\ UNCHANGED <<vars, call_stack, host_mouse, gosub_log, balance, host_keyboard, wait_mode, stale,
                   queue>>

\* Command::SetWaitMode(mode)
StepSetWaitMode ==
    /\ Running /\ Cmd.cmd = "SetWaitMode" /\ Len(host_calls) < MaxHostCalls
    /\ \E ret \in {HostRet("Ok"), HostRet("Err")} :
        /\ host_calls' = Append(host_calls, HostCall("set_wait_mode", <<Cmd.mode>>, ret))
        /\ IF ret.kind = "Ok"
           THEN ip' = incr_ip(ip) /\ wait_mode' = Cmd.mode /\ UNCHANGED <<pc, error>>
           ELSE Fail("SystemError") /\ UNCHANGED <<ip, wait_mode>>
    /\ Borrowed /\ Counted
    /\ UNCHANGED <<vars, vars_str, call_stack, host_mouse, gosub_log, balance, stale, host_keyboard,
                   host_menu, menu_bar, queue>>

Step ==
    \/ StepEnd
    \/ StepBeep
    \/ StepDrawBackground
    \/ StepDrawNumber
    \/ StepGosub
    \/ StepReturn
    \/ StepGoto
    \/ StepIf
    \/ StepSet
    \/ StepSetMouse
    \/ StepWaitInput
    \/ StepDrawText
    \/ StepRun
    \/ StepMessageBox
    \/ StepSetKeyboard
    \/ StepSetMenu
    \/ StepSetWaitMode

Next == Main \/ Parse \/ Step

Spec == Init /\ [][Next]_vars_all

----------------------------------------------------------------------------
(* Properties of the parser *)

\* from_src returned Ok
Parsed == pc \in {"run", "ok", "err"}

RECURSIVE Flatten(_)
Flatten(gs) == IF gs = <<>> THEN <<>> ELSE Head(gs) \o Flatten(Tail(gs))

\* The parts of the source in order, and those among them that emit a command
Parts == Flatten(source)
IsLabel(k) == Parts[k].rule = "label"
Declares(k, name) == IsLabel(k) /\ Parts[k].kwords[1].text = name
EmittedBefore(k) == Cardinality({ j \in 1..(k - 1) : ~IsLabel(j) })
LastCommand == program.commands[Len(program.commands)]

\* C1: whenever from_src succeeds, the commands are the commands of the source in
\* number plus one, and the last of them is End (also for an empty source and
\* for a source that ends with END).
C1_EndIsLast ==
    Parsed => /\ Len(program.commands) = EmittedBefore(Len(Parts) + 1) + 1
              /\ LastCommand.cmd = "End"

\* A source that already ends with END was parsed: two commands, both End
C1_Witness ==
    /\ pc = "run"
    /\ source = << <<KW("END")>> >>
    /\ Len(program.commands) = 2

\* C2: after a successful parse every If at index i has a target j with
\* i < j <= commands.len() that is a valid index into commands.
C2_IfTargets ==
    Parsed =>
        \A k \in 1..Len(program.commands) :
            program.commands[k].cmd = "If" =>
                /\ k - 1 < program.commands[k].goto_false
                /\ program.commands[k].goto_false <= Len(program.commands)
                /\ program.commands[k].goto_false + 1 \in DOMAIN program.commands

\* Two Ifs of one group, the first at index 0, were both patched to index 3
C2_Witness ==
    /\ pc = "run"
    /\ source = Blocks
    /\ program.commands[1].cmd = "If" /\ program.commands[1].goto_false = 3
    /\ program.commands[2].cmd = "If" /\ program.commands[2].goto_false = 3

\* C3 as stated: after a successful parse, for every label declaration of the
\* source, labels[name] is the number of commands emitted before that declaration.
C3_EveryDeclaration ==
    Parsed =>
        \A k \in 1..Len(Parts) :
            IsLabel(k) =>
                /\ Parts[k].kwords[1].text \in DOMAIN program.labels
                /\ program.labels[Parts[k].kwords[1].text] = EmittedBefore(k)

\* The last declaration of each name
IsLastDeclaration(k) ==
    /\ IsLabel(k)
    /\ \A j \in (k + 1)..Len(Parts) : ~Declares(j, Parts[k].kwords[1].text)

\* C3 as amended: after a successful parse the label table holds exactly the
\* declared names, and labels[name] is the number of commands emitted before the
\* last declaration of name, which is a valid command index.
C3_LastDeclaration ==
    Parsed =>
        /\ DOMAIN program.labels = { Parts[k].kwords[1].text : k \in { j \in 1..Len(Parts) : IsLabel(j) } }
        /\ \A k \in 1..Len(Parts) :
               IsLastDeclaration(k) =>
                   /\ program.labels[Parts[k].kwords[1].text] = EmittedBefore(k)
                   /\ program.labels[Parts[k].kwords[1].text] + 1 \in DOMAIN program.commands

\* L1 is declared before command 0 and again before command 1: the table has 1
C3_Witness ==
    /\ pc = "run"
    /\ source = Twice
    /\ Declares(1, "L1") /\ Declares(3, "L1")
    /\ program.labels["L1"] = 1

----------------------------------------------------------------------------
(* Properties of the virtual machine *)

RuntimeErrors ==
    {"CallStackExhaustedError", "MathOperationError", "InvalidVirtualKeyError",
     "InvalidPhysicalKeyError", "NonexistentLabelError", "ExcessVariablesError",
     "ExcessVariablesStrError", "SystemError"}

\* The value an integer operand stands for in the current store
Val(i) ==
    IF i.kind = "Literal" THEN i.val
    ELSE IF i.ident \in DOMAIN vars THEN vars[i.ident] ELSE 0

\* The integer store can take n more variables (always, unless pedantic)
RoomFor(n) == ~config.pedantic \/ Len0(vars) + n <= MaxVars

\* The step that is taken made a host call, and what it was
Called == host_calls' # host_calls
TheCall == host_calls'[Len(host_calls')]

\* C4: run starts at ip 0 and steps while steps succeed; it returns Ok exactly on
\* executing End or when wait_input answered Input::End, and Err only with the
\* error a step raised; a program that is only End returns Ok without a host call.
C4_RunEnds ==
    [][ /\ (pc = "parse" /\ pc' = "run") => ip' = 0
        /\ (pc = "run" /\ Cmd.cmd = "End") => pc' = "ok"
        /\ (pc # "ok" /\ pc' = "ok") =>
              /\ pc = "run" /\ error' = "none"
              /\ \/ Cmd.cmd = "End"
                 \/ /\ Cmd.cmd = "WaitInput" /\ Called
                    /\ TheCall.fn = "wait_input" /\ TheCall.ret.kind = "End"
        /\ (pc # "err" /\ pc' = "err") =>
              pc = "run" /\ error = "none" /\ error' \in RuntimeErrors
        /\ (pc = "run" /\ pc' = "run") => error' = "none"
        /\ (pc' = "ok" /\ program.commands = <<[cmd |-> "End"]>>) => host_calls' = <<>>
      ]_vars_all

\* run returned Ok because wait_input answered Input::End
C4_Witness ==
    /\ pc = "ok"
    /\ Cmd.cmd = "WaitInput"
    /\ host_calls # <<>>
    /\ host_calls[Len(host_calls)].ret.kind = "End"

\* The mathematical result of a op b lies in 0..65535 (and b # 0 for /)
Fits(op, a, b) ==
    CASE op = "+" -> a + b <= U16Max
      [] op = "-" -> b <= a
      [] op = "*" -> a = 0 \/ b <= U16Max \div a
      [] op = "/" -> b # 0

\* r is the mathematical result of a op b (the integer quotient for /)
IsExact(op, a, b, r) ==
    CASE op = "+" -> r - b = a
      [] op = "-" -> r + b = a
      [] op = "*" -> IF a = 0 THEN r = 0 ELSE r \div a = b /\ r % a = 0
      [] op = "/" -> \/ r = 0 /\ a < b
                     \/ r > 0 /\ b <= a \div r /\ a - r * b < b

\* C5: a Set with an expression assigns the exact result of a op b when it lies
\* in 0..65535 (b # 0 for /) and advances ip; in every other case it raises
\* MathOperationError, leaves ip and assigns nothing.
C5_Checked ==
    [][ (pc = "run" /\ Cmd.cmd = "Set" /\ Cmd.val.kind = "Expression" /\ RoomFor(3)) =>
            LET a == Val(Cmd.val.i1)
                b == Val(Cmd.val.i2)
            IN IF Fits(Cmd.val.op, a, b)
               THEN /\ pc' = "run" /\ error' = "none" /\ ip' = ip + 1
                    /\ Cmd.var \in DOMAIN vars'
                    /\ vars'[Cmd.var] \in 0..U16Max
                    /\ IsExact(Cmd.val.op, a, b, vars'[Cmd.var])
               ELSE /\ pc' = "err" /\ error' = "MathOperationError" /\ ip' = ip
                    /\ \A x \in DOMAIN vars : vars'[x] = vars[x]
      ]_vars_all

\* S3: x holds 65535, and SET y = x + 1 raised MathOperationError without defining y
C5_Witness ==
    /\ pc = "err" /\ error = "MathOperationError"
    /\ source = S3
    /\ "x" \in DOMAIN vars /\ vars["x"] = U16Max
    /\ "y" \notin DOMAIN vars
    /\ host_calls = <<>>

\* C6: once a step has returned an error, run has returned that error: no
\* command is executed and no host call is made any more.
C6_ErrorAborts ==
    [][ (error # "none" \/ pc = "err") =>
            /\ pc = "err" /\ error \in RuntimeErrors
            /\ UNCHANGED vars_all
      ]_vars_all

\* A host error was wrapped: the second Beep of a run failed in the host
C6_Witness ==
    /\ pc = "err" /\ error = "SystemError"
    /\ Cmd.cmd = "Beep"
    /\ Len(host_calls) = 2
    /\ host_calls[1].ret.kind = "Ok" /\ host_calls[2].ret.kind = "Err"

\* C7: a Return that finds a Gosub not yet returned from resumes right after the
\* most recent such Gosub, with the call stack as it was just before that Gosub
\* (gosub_log holds, innermost last, the Gosubs not yet returned from).
C7_Nesting ==
    [][ pc = "run" =>
            /\ Len(gosub_log) = Len(call_stack)
            /\ (Cmd.cmd = "Return" /\ gosub_log # <<>>) =>
                  /\ pc' = "run"
                  /\ ip' = gosub_log[Len(gosub_log)].at + 1
                  /\ call_stack' = gosub_log[Len(gosub_log)].before
      ]_vars_all

\* Nested: back at index 1 with an empty stack after the Gosub at 0, the two
\* inner Gosub/Return pairs (two beeps) and the outer Return
C7_Witness ==
    /\ pc = "run"
    /\ source = Nested
    /\ ip = 1 /\ call_stack = <<>>
    /\ Len(host_calls) = 2

\* C8: a Return executed with an empty call stack raises CallStackExhaustedError
\* and leaves ip and the stack as they are.
C8_EmptyReturn ==
    [][ (pc = "run" /\ Cmd.cmd = "Return" /\ call_stack = <<>>) =>
            /\ pc' = "err" /\ error' = "CallStackExhaustedError"
            /\ ip' = ip /\ call_stack' = <<>>
      ]_vars_all

\* Sub: the Gosub's frame was popped by a first Return, the second one failed
C8_Witness ==
    /\ pc = "err" /\ error = "CallStackExhaustedError"
    /\ source = Sub
    /\ ip = 1 /\ call_stack = <<>>

\* A jump to label L: to labels[L], or NonexistentLabelError with ip unchanged
JumpsTo(L) ==
    IF L \in DOMAIN program.labels
    THEN pc' = "run" /\ ip' = program.labels[L]
    ELSE pc' = "err" /\ error' = "NonexistentLabelError" /\ ip' = ip

\* C9: Goto(L), Gosub(L), an Input::Goto(L) and the label of an Input::Mouse all
\* set ip to labels[L] when L is in the label table and raise
\* NonexistentLabelError when it is not.
C9_Jumps ==
    [][ pc = "run" =>
            /\ Cmd.cmd \in {"Goto", "Gosub"} => JumpsTo(Cmd.ident)
            /\ (Cmd.cmd = "WaitInput" /\ Called /\ TheCall.ret.kind = "Goto") =>
                  JumpsTo(TheCall.ret.label)
            /\ (Cmd.cmd = "WaitInput" /\ Called /\ TheCall.ret.kind = "Mouse"
                /\ RoomFor(2)) =>
                  JumpsTo(TheCall.ret.callbacks.label)
      ]_vars_all

\* wait_input delivered Goto(L) for an L that is not declared
C9_Witness ==
    /\ pc = "err" /\ error = "NonexistentLabelError"
    /\ Cmd.cmd = "WaitInput"
    /\ host_calls # <<>>
    /\ host_calls[Len(host_calls)].ret.kind = "Goto"
    /\ host_calls[Len(host_calls)].ret.label \notin DOMAIN program.labels

\* The comparison a op b on naturals, by the three orderings of a and b
Holds(op, a, b) ==
    \/ a = b /\ op \in {"=", "<=", ">="}
    \/ a < b /\ op \in {"<", "<=", "<>"}
    \/ a > b /\ op \in {">", ">=", "<>"}

\* C10: an If goes to ip + 1 exactly when i1 op i2 holds and to goto_false
\* otherwise, without a host call and without touching the call stack; run on
\* S4 with any operands, the host gets two beeps when the predicate holds, one
\* when it does not.
C10_If ==
    [][ /\ (pc = "run" /\ Cmd.cmd = "If" /\ RoomFor(2)) =>
              /\ pc' = "run"
              /\ ip' = IF Holds(Cmd.op, Val(Cmd.i1), Val(Cmd.i2))
                       THEN ip + 1 ELSE Cmd.goto_false
              /\ UNCHANGED <<call_stack, host_calls>>
        /\ (pc' = "ok" /\ source \in IfSources) =>
              /\ \A k \in 1..Len(host_calls') : host_calls'[k].fn = "beep"
              /\ Len(host_calls') =
                    IF Holds(program.commands[1].op, Val(program.commands[1].i1),
                             Val(program.commands[1].i2))
                    THEN 2 ELSE 1
      ]_vars_all

\* S4 with < swapped to >: the run ended with exactly one beep
C10_Witness ==
    /\ pc = "ok"
    /\ source = S4(1, ">", 2)
    /\ Len(host_calls) = 1

----------------------------------------------------------------------------
(* Properties of operand evaluation and of the stores *)

\* The integer and the string operands a command evaluates, in order
IntOperands(c) ==
    CASE c.cmd = "DrawNumber" -> <<c.x, c.y, c.n>>
      [] c.cmd = "DrawText" -> <<c.x, c.y>>
      [] c.cmd = "MessageBox" -> <<c.default_button>>
      [] OTHER -> <<>>
StrOperands(c) ==
    CASE c.cmd = "DrawText" -> <<c.text>>
      [] c.cmd = "Run" -> <<c.command>>
      [] c.cmd = "MessageBox" -> <<c.text, c.caption>>
      [] OTHER -> <<>>

\* The variables among some operands
Idents(ops) == { ops[k].ident : k \in { j \in DOMAIN ops : ops[j].kind = "Variable" } }

\* The value a string operand stands for in the current store
ValStr(s) ==
    IF s.kind = "Literal" THEN s.val
    ELSE IF s.ident \in DOMAIN vars_str THEN vars_str[s.ident] ELSE ""

\* The string store can take n more variables (always, unless pedantic)
RoomForStr(n) == ~config.pedantic \/ Len0(vars_str) + n <= MaxVarsStr

\* C11: a command that reads its operands gets, for a variable without a binding,
\* 0 (integer) or "" (string), and the variable is bound to that value afterwards;
\* for a bound variable it gets the binding; the bindings that existed are unchanged
\* and nothing else is added to either store (the caps of pedantic mode permitting).
C11_Reads ==
    [][ ( /\ pc = "run" /\ Cmd.cmd \in {"DrawNumber", "DrawText", "Run"}
          /\ RoomFor(Cardinality(Idents(IntOperands(Cmd)) \ DOMAIN vars))
          /\ RoomForStr(Cardinality(Idents(StrOperands(Cmd)) \ DOMAIN vars_str)) )
        => /\ Called
           /\ TheCall.args = [k \in DOMAIN IntOperands(Cmd) |-> Val(IntOperands(Cmd)[k])]
                              \o [k \in DOMAIN StrOperands(Cmd) |->
                                     ValStr(StrOperands(Cmd)[k])]
           /\ DOMAIN vars' = DOMAIN vars \cup Idents(IntOperands(Cmd))
           /\ DOMAIN vars_str' = DOMAIN vars_str \cup Idents(StrOperands(Cmd))
           /\ \A v \in DOMAIN vars' : vars'[v] = IF v \in DOMAIN vars THEN vars[v] ELSE 0
           /\ \A v \in DOMAIN vars_str' :
                 vars_str'[v] = IF v \in DOMAIN vars_str THEN vars_str[v] ELSE ""
      ]_vars_all

\* Reads has drawn: u and t$ had no binding, read as 0 and "" and are bound now,
\* and n was read as the 7 it is bound to
C11_Witness ==
    /\ source = Reads /\ Len(host_calls) = 3
    /\ host_calls[1].args = <<7, 0, 3>>
    /\ host_calls[3].fn = "draw_text" /\ host_calls[3].args[1] = 0
    /\ host_calls[3].args[3] = ""
    /\ vars = [v \in {"n", "u", "v"} |-> IF v = "n" THEN 7 ELSE 0]
    /\ vars_str = [v \in {"t$"} |-> ""]

\* The names of the categories and of the members of a menu
MenuNames(menu) ==
    { menu[k].item.name : k \in DOMAIN menu }
    \cup UNION { { menu[k].members[j].name : j \in DOMAIN menu[k].members } :
                 k \in DOMAIN menu }

\* The integer variables a command binds when they have no binding: the ones it
\* reads and, for SET var = value, var
IntVarsOf(c) ==
    CASE c.cmd = "Set" /\ c.val.kind = "Value" -> Idents(<<c.val.i>>) \cup {c.var}
      [] c.cmd = "Set" /\ c.val.kind = "Expression" -> Idents(<<c.val.i1, c.val.i2>>)
      [] OTHER -> Idents(IntOperands(c))

\* The string variables a command binds when they have no binding
StrVarsOf(c) ==
    IF c.cmd = "SetMenu"
    THEN { n.ident : n \in { m \in MenuNames(c.menu) : m.kind = "Variable" } }
    ELSE Idents(StrOperands(c))

\* C12: in pedantic mode the integer store never holds more than MaxVars variables
\* and the string store never more than MaxVarsStr; at the cap, a command that has
\* to bind one more variable fails with ExcessVariablesError (integer) or
\* ExcessVariablesStrError (string) without a host call, and the store is as before.
C12_Caps ==
    [][ config.pedantic =>
        /\ Len0(vars') <= MaxVars
        /\ Len0(vars_str') <= MaxVarsStr
        /\ ( /\ pc = "run" /\ Len0(vars) = MaxVars
             /\ IntVarsOf(Cmd) \ DOMAIN vars # {} )
           => /\ pc' = "err" /\ error' = "ExcessVariablesError"
              /\ vars' = vars /\ ~Called
        /\ ( /\ pc = "run" /\ Len0(vars_str) = MaxVarsStr
             /\ StrVarsOf(Cmd) \ DOMAIN vars_str # {}
             /\ RoomFor(Cardinality(IntVarsOf(Cmd) \ DOMAIN vars)) )
           => /\ pc' = "err" /\ error' = "ExcessVariablesStrError"
              /\ vars_str' = vars_str /\ ~Called
      ]_vars_all

\* The run ended on the variable that would have been one more than MaxVars
C12_Witness ==
    /\ config.pedantic /\ pc = "err" /\ error = "ExcessVariablesError"
    /\ Len0(vars) = MaxVars /\ Cmd.cmd = "Set" /\ Cmd.var = "w"

\* The same for the string store: the menu that names one variable too many
StrCapReached ==
    /\ config.pedantic /\ pc = "err" /\ error = "ExcessVariablesStrError"
    /\ Len0(vars_str) = MaxVarsStr /\ Cmd.cmd = "SetMenu"

----------------------------------------------------------------------------
(* Properties of the label cap *)

\* The label names the source declares
Declared == { Parts[k].kwords[1].text : k \in { j \in DOMAIN Parts : IsLabel(j) } }

\* C13: in pedantic mode from_src fails with ExcessLabelsError only for a source that
\* declares more than MaxLabels label names, a source that declares more is not
\* accepted, and without pedantic mode the error is never raised.
C13_ExcessLabels ==
    /\ parse_error = "ExcessLabelsError" =>
          config.pedantic /\ Cardinality(Declared) > MaxLabels
    /\ (Parsed /\ config.pedantic) => Cardinality(Declared) <= MaxLabels

\* What the code does: the error is raised by the declaration that finds MaxLabels
\* names in the table, whether or not its own name is one of them
C13_AsCoded ==
    /\ parse_error = "ExcessLabelsError" =>
          /\ config.pedantic
          /\ \E k \in DOMAIN Parts :
                /\ IsLabel(k)
                /\ Cardinality({ Parts[j].kwords[1].text :
                                   j \in { i \in 1..(k - 1) : IsLabel(i) } }) = MaxLabels
    /\ (Parsed /\ config.pedantic) => Cardinality(Declared) <= MaxLabels

\* MaxLabels names and one of them declared again: rejected with a table of MaxLabels
C13_Rejected ==
    /\ source = ManyLabels(MaxLabels, <<LabelP("l1", 1)>>)
    /\ parse_error = "ExcessLabelsError"
    /\ Cardinality(Declared) = MaxLabels

----------------------------------------------------------------------------
(* Properties of the commands that call the host *)

\* The commands that call the host and then go on with the next command, and
\* the function of VMSys each of them calls
HostFn ==
    [c \in {"Beep", "DrawBackground", "DrawNumber", "DrawText", "Run", "MessageBox",
            "SetKeyboard", "SetMenu", "SetMouse", "SetWaitMode"} |->
        CASE c = "Beep" -> "beep"
          [] c = "DrawBackground" -> "draw_background"
          [] c = "DrawNumber" -> "draw_number"
          [] c = "DrawText" -> "draw_text"
          [] c = "Run" -> "run"
          [] c = "MessageBox" -> "message_box"
          [] c = "SetKeyboard" -> "set_keyboard"
          [] c = "SetMenu" -> "set_menu"
          [] c = "SetMouse" -> "set_mouse"
          [] c = "SetWaitMode" -> "set_wait_mode"]

\* The arguments a call of the command has to carry: its operands with every
\* variable replaced by its value (0 or "" when it has none)
ResolvedArgs(c) ==
    CASE c.cmd = "MessageBox" ->
            <<c.typ, Val(c.default_button), c.icon, ValStr(c.text), ValStr(c.caption)>>
      [] c.cmd = "SetWaitMode" -> <<c.mode>>
      [] c.cmd = "SetMouse" ->
            [k \in DOMAIN c.params |->
                [x1 |-> Val(c.params[k].x1), y1 |-> Val(c.params[k].y1),
                 x2 |-> Val(c.params[k].x2), y2 |-> Val(c.params[k].y2),
                 callbacks |-> c.params[k].callbacks]]
      [] c.cmd = "SetMenu" ->
            [k \in DOMAIN c.menu |->
                [item |-> [kind |-> "Item", name |-> ValStr(c.menu[k].item.name),
                           label |-> c.menu[k].item.label],
                 members |-> [j \in DOMAIN c.menu[k].members |->
                                 [kind |-> c.menu[k].members[j].kind,
                                  name |-> ValStr(c.menu[k].members[j].name),
                                  label |-> c.menu[k].members[j].label]]]]
      [] OTHER ->
            [k \in DOMAIN IntOperands(c) |-> Val(IntOperands(c)[k])]
            \o [k \in DOMAIN StrOperands(c) |-> ValStr(StrOperands(c)[k])]

\* The call of a SetKeyboard carries, for the key of every operand, the label
\* of an operand with that key
ResolvedKeys(c, args) ==
    /\ DOMAIN args = { KeyVirtual(VirtualKeyFrom(Val(k)).v) : k \in DOMAIN c.params }
    /\ \A key \in DOMAIN args :
          \E k \in DOMAIN c.params :
              key = KeyVirtual(VirtualKeyFrom(Val(k)).v) /\ args[key] = c.params[k]

\* What C14 says of every step but the last line: at most one call, the call of the
\* command with the resolved operands, ip advanced by one or not at all, no call
\* when the evaluation failed, no advance when the call failed
HostStep ==
    /\ Len(host_calls') <= Len(host_calls) + 1
    /\ Called =>
          /\ host_calls' = Append(host_calls, TheCall)
          /\ TheCall.fn = HostFn[Cmd.cmd]
          /\ IF Cmd.cmd = "SetKeyboard" THEN ResolvedKeys(Cmd, TheCall.args)
             ELSE TheCall.args = ResolvedArgs(Cmd)
    /\ \/ ip' = ip + 1 /\ pc' = "run" /\ Called /\ TheCall.ret.kind = "Ok"
       \/ ip' = ip /\ pc' = "err"
    /\ ~Called =>
          /\ pc' = "err"
          /\ error' \in {"ExcessVariablesError", "ExcessVariablesStrError",
                         "InvalidVirtualKeyError"}
    /\ (Called /\ TheCall.ret.kind = "Err") => pc' = "err" /\ error' = "SystemError"

\* C14 as stated: a command that calls the host evaluates its operands, makes one
\* call with the resolved values and then advances ip by one; ip stays only when
\* the evaluation failed (and then there is no call) or the call failed.
C14_CallThenNext ==
    [][ (pc = "run" /\ Cmd.cmd \in DOMAIN HostFn) =>
        /\ HostStep
        /\ (Called /\ TheCall.ret.kind = "Ok") => ip' = ip + 1
      ]_vars_all

\* C14, amended: the same, and ip also stays when the call of a MessageBox was
\* made and answered but the button pushed could not be stored
\* (ExcessVariablesError).
C14_CallThenStore ==
    [][ (pc = "run" /\ Cmd.cmd \in DOMAIN HostFn) =>
        /\ HostStep
        /\ (Called /\ TheCall.ret.kind = "Ok") =>
              \/ ip' = ip + 1
              \/ Cmd.cmd = "MessageBox" /\ error' = "ExcessVariablesError"
        /\ (Cmd.cmd # "MessageBox" /\ Called /\ TheCall.ret.kind = "Ok") => ip' = ip + 1
      ]_vars_all

\* The dialog was shown and answered, and the run ended on storing the button
C14_Witness ==
    /\ pc = "err" /\ Cmd.cmd = "MessageBox" /\ error = "ExcessVariablesError"
    /\ host_calls # <<>>
    /\ host_calls[Len(host_calls)].fn = "message_box"
    /\ host_calls[Len(host_calls)].ret.kind = "Ok"

\* The function of VMSys a command calls; the control commands call none
FnOf(c) == IF c = "WaitInput" THEN "wait_input" ELSE HostFn[c]

\* C15: every step of a command that calls the host appends exactly its own call
\* to the calls made so far, unless the evaluation of its operands failed, and a
\* step that lets the run go on has made its call; End, Goto, Gosub, Return, If
\* and Set, and the parser, leave the calls as they are. So the calls are the
\* commands that reached the host, in the order of their execution.
C15_CallOrder ==
    [][ /\ pc # "run" => host_calls' = host_calls
        /\ ( pc = "run"
             /\ Cmd.cmd \in {"End", "Goto", "Gosub", "Return", "If", "Set"} )
           => host_calls' = host_calls
        /\ ( pc = "run" /\ Cmd.cmd \in DOMAIN HostFn \cup {"WaitInput"} )
           => /\ \/ host_calls' = host_calls /\ pc' = "err" /\ error' # "SystemError"
                 \/ /\ Len(host_calls') = Len(host_calls) + 1
                    /\ SubSeq(host_calls', 1, Len(host_calls)) = host_calls
                    /\ TheCall.fn = FnOf(Cmd.cmd)
              /\ pc' # "err" => Called
      ]_vars_all

\* Runs has run to its END: the four calls are its four commands in order
C15_Witness ==
    /\ source = Runs /\ pc = "ok"
    /\ [k \in DOMAIN host_calls |-> host_calls[k].fn]
         = <<"draw_background", "run", "run", "run">>
    /\ host_calls[2].args = <<"">> /\ host_calls[4].args = <<"ls">>

----------------------------------------------------------------------------
(* Properties of WaitInput *)

\* The variable a WaitInput reads for its timeout, if it names one
WaitIdents ==
    IF Cmd.milliseconds.some THEN Idents(<<Cmd.milliseconds.i>>) ELSE {}

\* C16: when wait_input answers Mouse{callbacks, x, y}, x is stored in callbacks.x,
\* then y in callbacks.y (so that one variable named for both holds y), no other
\* binding changes, the call stack is as before and ip is labels[callbacks.label]
\* (NonexistentLabelError without the label); in S5 the call after the wait is
\* draw_number(x, y, 42) with the coordinates of the click. The premise is room
\* for the variables under the cap of pedantic mode.
C16_Mouse ==
    [][ /\ ( /\ pc = "run" /\ Cmd.cmd = "WaitInput" /\ Called
             /\ TheCall.ret.kind = "Mouse" /\ RoomFor(3) )
           => LET cb == TheCall.ret.callbacks IN
              /\ DOMAIN vars' = DOMAIN vars \cup {cb.x, cb.y} \cup WaitIdents
              /\ vars'[cb.y] = TheCall.ret.y
              /\ cb.x # cb.y => vars'[cb.x] = TheCall.ret.x
              /\ \A v \in DOMAIN vars \ {cb.x, cb.y} : vars'[v] = vars[v]
              /\ call_stack' = call_stack
              /\ IF cb.label \in DOMAIN program.labels
                 THEN ip' = program.labels[cb.label] /\ pc' = "run"
                 ELSE ip' = ip /\ pc' = "err" /\ error' = "NonexistentLabelError"
        /\ ( /\ source = S5 /\ Len(host_calls) = 2 /\ Called
             /\ host_calls[2].ret.kind = "Mouse" )
           => /\ TheCall.fn = "draw_number"
              /\ TheCall.args = <<host_calls[2].ret.x, host_calls[2].ret.y, 42>>
      ]_vars_all

\* S5 after the click at (50, 60): set_mouse, wait_input(None), draw_number(50, 60, 42)
C16_Witness ==
    /\ source = S5 /\ Len(host_calls) = 3 /\ call_stack = <<>>
    /\ host_calls[1].fn = "set_mouse"
    /\ host_calls[2].fn = "wait_input" /\ host_calls[2].args = <<>>
    /\ host_calls[2].ret.kind = "Mouse"
    /\ host_calls[3].fn = "draw_number" /\ host_calls[3].args = <<50, 60, 42>>
    /\ vars = [v \in {"mx", "my"} |-> IF v = "mx" THEN 50 ELSE 60]

\* C17: after wait_input answered Goto(L) ip is labels[L] (NonexistentLabelError
\* without the label), after End the run is over with Ok and ip as it was, after
\* None ip is one more; in the three cases the call stack and the string store are
\* as before and the integer store differs at most by the timeout variable, bound
\* to 0 by the read.
C17_WaitOutcome ==
    [][ ( /\ pc = "run" /\ Cmd.cmd = "WaitInput" /\ Called
          /\ TheCall.ret.kind \in {"Goto", "End", "None"} )
        => /\ call_stack' = call_stack
           /\ vars_str' = vars_str
           /\ DOMAIN vars' = DOMAIN vars \cup WaitIdents
           /\ \A v \in DOMAIN vars' : vars'[v] = IF v \in DOMAIN vars THEN vars[v] ELSE 0
           /\ TheCall.ret.kind = "Goto" =>
                 IF TheCall.ret.label \in DOMAIN program.labels
                 THEN /\ ip' = program.labels[TheCall.ret.label]
                      /\ pc' = "run" /\ error' = "none"
                 ELSE ip' = ip /\ pc' = "err" /\ error' = "NonexistentLabelError"
           /\ TheCall.ret.kind = "End" => pc' = "ok" /\ ip' = ip /\ error' = "none"
           /\ TheCall.ret.kind = "None" => pc' = "run" /\ ip' = ip + 1 /\ error' = "none"
      ]_vars_all

\* Waits inside its subroutine: a timed wait answered None, then one answered
\* Goto(L1), with the frame and the variables in place
C17_Witness ==
    /\ source = Waits /\ pc = "run" /\ Len(host_calls) = 3
    /\ host_calls[2].ret.kind = "None" /\ host_calls[3].ret.kind = "Goto"
    /\ call_stack = <<2>> /\ vars = [v \in {"n", "t"} |-> IF v = "n" THEN 7 ELSE 0]

\* ---------------------------------------------------------------------------
\* Properties of the input bindings
\* ---------------------------------------------------------------------------

\* The key operands of a SetKeyboard that are variables not yet in the store
UnboundKeys(c) ==
    { k.ident : k \in { j \in DOMAIN c.params : j.kind = "Variable" } } \ DOMAIN vars

\* A SetKeyboard is run whose key operands all find room in the store; it
\* succeeds as far as the conversion of its keys when it calls set_keyboard, and
\* is rejected when it ends the run with InvalidVirtualKeyError and no call
KeyStep(table) ==
    (pc = "run" /\ Cmd.cmd = "SetKeyboard" /\ RoomFor(Cardinality(UnboundKeys(Cmd)))) =>
        IF \A k \in DOMAIN Cmd.params : Val(k) \in table
        THEN /\ Called /\ TheCall.fn = "set_keyboard"
             /\ TheCall.ret.kind = "Ok" => (ip' = ip + 1 /\ pc' = "run")
        ELSE /\ ~Called /\ host_keyboard' = host_keyboard
             /\ pc' = "err" /\ error' = "InvalidVirtualKeyError" /\ ip' = ip

\* The virtual-key codes as the claim lists them
KeyTableStated ==
    {8, 9, 13, 16, 17, 18, 27, 32} \cup (33..40) \cup {45, 46} \cup (48..57)
    \cup (65..90) \cup (96..105) \cup (106..111) \cup (112..127) \cup {144, 145}
    \cup (186..222)

\* The virtual-key codes the claim is amended to
KeyTableAmended ==
    {8, 9, 12, 13, 16, 17, 18, 19, 20, 27} \cup (32..40) \cup {44, 45, 46}
    \cup (48..57) \cup (65..90) \cup (96..107) \cup (109..127) \cup {144, 145}
    \cup (186..192) \cup (219..222)

\* C18 as stated: SetKeyboard with a virtual-key operand of code c succeeds iff c
\* is one of 8, 9, 13, 16, 17, 18, 27, 32, 33..40, 45, 46, 48..57, 65..90,
\* 96..105, 106..111, 112..127, 144, 145, 186..222; with any other code of
\* 0..65535 it fails with InvalidVirtualKeyError and set_keyboard is not called.
C18_StatedTable == [][KeyStep(KeyTableStated)]_vars_all

\* C18, amended: the same with the codes 8, 9, 12, 13, 16..20, 27, 32..40, 44..46,
\* 48..57, 65..90, 96..107, 109..127, 144, 145, 186..192, 219..222 (12, 19, 20
\* and 44 are keys; 108 and 193..218 are not).
C18_KeyTable == [][KeyStep(KeyTableAmended)]_vars_all

\* Code 12, held in a variable, was bound by a call of set_keyboard
C18_Witness ==
    /\ pc = "run" /\ "k" \in DOMAIN vars /\ vars["k"] = 12
    /\ Len(host_calls) = 1 /\ host_calls[1].fn = "set_keyboard"
    /\ host_calls[1].ret.kind = "Ok" /\ DOMAIN host_keyboard # {}

\* Code 108 ended the run with InvalidVirtualKeyError before any call
KeyRejected ==
    /\ pc = "err" /\ error = "InvalidVirtualKeyError" /\ host_calls = <<>>
    /\ "k" \in DOMAIN vars /\ vars["k"] = 108

\* A region with its corners in order
Ordered(region) == region.x1 <= region.x2 /\ region.y1 <= region.y2

\* C19: every mouse region handed to set_mouse, and every region the host then
\* holds for hit testing, has x1 <= x2 and y1 <= y2, whatever the operands of the
\* SetMouse and the values of its variables.
C19_OrderedRegions ==
    /\ \A i \in DOMAIN host_calls :
          host_calls[i].fn = "set_mouse" =>
              \A k \in DOMAIN host_calls[i].args : Ordered(host_calls[i].args[k])
    /\ \A k \in DOMAIN host_mouse : Ordered(host_mouse[k])

\* SETMOUSE a 100 0 b ... with a = 100 and b unbound was accepted by the host,
\* which now tests clicks against the region from (100, 100) to (0, 0)
InvertedBound ==
    /\ source = Inverted /\ pc = "run" /\ Len(host_calls) = 1
    /\ host_calls[1].fn = "set_mouse" /\ host_calls[1].ret.kind = "Ok"
    /\ host_calls[1].args[1].x1 = 100 /\ host_calls[1].args[1].x2 = 0
    /\ Len(host_mouse) = 1 /\ ~Ordered(host_mouse[1])

\* The last call of fn the host accepted (0 when there was none), and its arguments
LastOk(fn) ==
    LET S == { i \in DOMAIN host_calls :
                 host_calls[i].fn = fn /\ host_calls[i].ret.kind = "Ok" } IN
    IF S = {} THEN 0 ELSE CHOOSE i \in S : \A j \in S : j <= i
LastArgs(fn, none) == IF LastOk(fn) = 0 THEN none ELSE host_calls[LastOk(fn)].args

\* The handlers of the most recent SetKeyboard (key to label), SetMouse (the
\* regions) and SetMenu (the labels of its items, in order)
KeyboardHandlers == LastArgs("set_keyboard", EmptyMap)
MouseHandlers == LastArgs("set_mouse", <<>>)
MenuHandlers == menu_labels(LastArgs("set_menu", <<>>))

\* The host holds the handlers of the most recent Set* commands and no other
BindingsAreLatest ==
    /\ host_keyboard = KeyboardHandlers
    /\ Len(host_mouse) = Len(MouseHandlers)
    /\ \A k \in DOMAIN host_mouse :
          /\ host_mouse[k].callbacks = MouseHandlers[k].callbacks
          /\ host_mouse[k].x1 = MouseHandlers[k].x1 * scale
          /\ host_mouse[k].y1 = MouseHandlers[k].y1 * scale
          /\ host_mouse[k].x2 = MouseHandlers[k].x2 * scale
          /\ host_mouse[k].y2 = MouseHandlers[k].y2 * scale
    /\ DOMAIN host_menu = 0..(Len(MenuHandlers) - 1)
    /\ \A k \in DOMAIN host_menu : host_menu[k] = MenuHandlers[k + 1]

\* The input a WaitInput is answered with comes from one of those handlers
FiresLatest ==
    (pc = "run" /\ Cmd.cmd = "WaitInput" /\ Called) =>
        /\ TheCall.ret.kind = "Goto" =>
              \/ \E key \in DOMAIN KeyboardHandlers :
                    TheCall.ret.label = KeyboardHandlers[key]
              \/ \E k \in DOMAIN MenuHandlers : TheCall.ret.label = MenuHandlers[k]
        /\ TheCall.ret.kind = "Mouse" =>
              \E k \in DOMAIN MouseHandlers :
                  /\ TheCall.ret.callbacks = MouseHandlers[k].callbacks
                  /\ MouseHandlers[k].x1 <= TheCall.ret.x /\ TheCall.ret.x <= MouseHandlers[k].x2
                  /\ MouseHandlers[k].y1 <= TheCall.ret.y /\ TheCall.ret.y <= MouseHandlers[k].y2

\* C20: SetKeyboard, SetMouse and SetMenu replace the host's bindings of their
\* kind wholesale and count from the next WaitInput on: at every moment the host
\* holds exactly the handlers of the most recent SetKeyboard, SetMouse and
\* SetMenu, and every input a WaitInput yields comes from one of them, never
\* from a binding of an earlier call that the latest call leaves out.
C20_LatestBindings == []BindingsAreLatest /\ [][FiresLatest]_vars_all

\* After SETKEYBOARD 65 old and SETKEYBOARD 27 new, the wait was answered by the
\* Escape key with a jump to new, the only key bound
C20_Witness ==
    /\ source = Rekey /\ Len(host_calls) = 3
    /\ host_calls[1].fn = "set_keyboard" /\ host_calls[2].fn = "set_keyboard"
    /\ host_calls[3].fn = "wait_input" /\ host_calls[3].ret = InputGoto("new")
    /\ Cardinality(DOMAIN host_keyboard) = 1
    /\ pc = "run" /\ ip = program.labels["new"]

\* ---------------------------------------------------------------------------
\* Properties of the wait modes
\* ---------------------------------------------------------------------------

\* A WaitInput is run in mode NULL, with or without a timeout, and the host answers
WaitAnswered(timed) ==
    /\ pc = "run" /\ Cmd.cmd = "WaitInput" /\ wait_mode = "NULL"
    /\ Cmd.milliseconds.some = timed
    /\ Called /\ TheCall.fn = "wait_input" /\ TheCall.ret.kind # "Err"

\* Some entry of the queue has a handler
Matched(q) ==
    \/ \E i \in DOMAIN q.keyboard : q.keyboard[i] \in DOMAIN host_keyboard
    \/ \E i \in DOMAIN q.mouse : Hit(q.mouse[i]) # {}
    \/ \E i \in DOMAIN q.menu : q.menu[i] \in DOMAIN host_menu

\* C21: in mode NULL with a timeout, wait_input never answers Goto or Mouse,
\* whatever is queued or bound: it answers End when the window was closed and
\* None otherwise (and the VM then goes on with the next command).
C21_TimedWait ==
    [][ WaitAnswered(TRUE) =>
          /\ TheCall.ret.kind \in {"End", "None"}
          /\ TheCall.ret.kind = "End" <=> queue'.closed
          /\ TheCall.ret.kind = "None" => (ip' = ip + 1 /\ pc' = "run")
      ]_vars_all

\* WAITINPUT t of Waits answered None while the queue held the key bound to L1
C21_Witness ==
    /\ source = Waits /\ pc = "run" /\ Len(host_calls) = 2
    /\ host_calls[2].fn = "wait_input" /\ host_calls[2].args = <<0>>
    /\ host_calls[2].ret.kind = "None"
    /\ wait_mode = "NULL" /\ ~queue.closed /\ Matched(queue)

\* C22: in mode NULL without a timeout, wait_input returns only on an input that
\* matched a handler or on the closing of the window, with the Goto, Mouse or End
\* that belongs to it; it never answers None, so the VM never goes on to the
\* command after an untimed WaitInput, also when the window was closed beforehand.
C22_UntimedWait ==
    [][ WaitAnswered(FALSE) =>
          /\ TheCall.ret.kind \in {"Goto", "Mouse", "End"}
          /\ TheCall.ret.kind = "End" <=> queue'.closed
      ]_vars_all

\* The window was closed while the untimed WAITINPUT of Waits drained the pending
\* events: the answer was None and the run went on with the command after it
FellThrough ==
    /\ source = Waits /\ pc = "run" /\ Len(host_calls) = 3
    /\ host_calls[3].fn = "wait_input" /\ host_calls[3].args = <<>>
    /\ host_calls[3].ret.kind = "None" /\ queue.closed
    /\ program.commands[ip + 1].cmd = "Return"

\* ---------------------------------------------------------------------------
\* Properties of the configuration and of the dialects
\* ---------------------------------------------------------------------------

\* The source has a string-variable identifier among its operands
UsesStrIdent(src) ==
    \E g \in DOMAIN src : \E p \in DOMAIN src[g] :
        \E k \in DOMAIN src[g][p].kwords : src[g][p].kwords[k].rule = "identifier_str"

\* from_src has returned, with a Program or with an error
ParseDone == pc \in {"run", "ok", "err", "parse_err"}

\* C23: with dialect win3.0 in pedantic mode, a program with a string-variable
\* identifier in a string operand position fails to parse with
\* StandardUnsupportedError, and no Program is produced.
C23_DialectRejects ==
    (ParseDone /\ config.pedantic /\ config.standard = "WIN3_0" /\ UsesStrIdent(source)) =>
        /\ pc = "parse_err" /\ parse_error = "StandardUnsupportedError"
        /\ program.commands = <<>>

\* DRAWBACKGROUND / RUN c$ / ... under --pedantic --std win3.0: parsed, and RUN
\* has been handed the value of c$
DialectIgnored ==
    /\ source = Runs /\ matches.std = SomeStd("win3.0") /\ config.pedantic
    /\ config.standard = "WIN3_0" /\ pc = "run"
    /\ Len(host_calls) = 2 /\ host_calls[2].fn = "run" /\ "c$" \in DOMAIN vars_str

\* The dialect a run is to have by the command line: win3.1 without --std
StdStated ==
    IF ~matches.std.some THEN "WIN3_1"
    ELSE CASE matches.std.v = "win3.0" -> "WIN3_0"
           [] matches.std.v = "win3.1" -> "WIN3_1"
           [] OTHER -> "rejected"

\* C24: without --std the dialect of the configuration is win3.1; with --std
\* win3.0 or --std win3.1 it is that value; any other value is rejected before
\* parsing.
C24_Dialect ==
    pc # "main" =>
        IF StdStated = "rejected"
        THEN /\ pc = "panic" /\ program.commands = <<>> /\ parse_error = "none"
             /\ host_calls = <<>>
        ELSE pc # "panic" /\ config.standard = StdStated /\ config.pedantic = matches.pedantic

\* S1 run without --std: the configuration has the default of Standard, win3.0
DefaultDialect ==
    /\ source = S1 /\ ~matches.std.some /\ pc = "ok" /\ config.standard = "WIN3_0"

\* --std win95 ended in the panic of main, nothing parsed
StdRejected ==
    /\ matches.std = SomeStd("win95") /\ pc = "panic" /\ program.commands = <<>>

\* ---------------------------------------------------------------------------
\* Properties of the label declarations
\* ---------------------------------------------------------------------------

\* The first label of the source that is not at column 1 (0 when there is none),
\* the names declared before it, and whether the parser gets as far as that label
IndentedAt ==
    LET S == { k \in DOMAIN Parts : Parts[k].rule = "label" /\ Parts[k].col > 1 } IN
    IF S = {} THEN 0 ELSE CHOOSE k \in S : \A j \in S : k <= j
DeclaredBefore(k) ==
    { Parts[j].kwords[1].text : j \in { i \in 1..(k - 1) : Parts[i].rule = "label" } }
ReachesIndented ==
    /\ ParseDone /\ IndentedAt # 0
    /\ from_src(<< SubSeq(Parts, 1, IndentedAt - 1) >>, config).ok

\* Parsing failed with LabelIndentationError at the place of the label, which is
\* in no label table, there being no Program
IndentationReported ==
    /\ pc = "parse_err" /\ parse_error = "LabelIndentationError"
    /\ parse_error_at = [line |-> Parts[IndentedAt].line, col |-> Parts[IndentedAt].col,
                         text |-> Parts[IndentedAt].kwords[1].text]
    /\ program = [commands |-> <<>>, labels |-> EmptyMap]

\* C25 as stated: a label declaration whose name does not start at column 1
\* makes parsing fail with LabelIndentationError carrying the line and column of
\* the label and its text; the label is not inserted and no Program is returned.
C25_IndentedLabel == ReachesIndented => IndentationReported

\* C25, amended: the same, unless in pedantic mode 500 labels are declared before
\* it: parsing then fails with ExcessLabelsError, again without a Program.
C25_IndentedOrExcess ==
    ReachesIndented =>
        IF config.pedantic /\ Cardinality(DeclaredBefore(IndentedAt)) >= MaxLabels
        THEN /\ pc = "parse_err" /\ parse_error = "ExcessLabelsError"
             /\ program = [commands |-> <<>>, labels |-> EmptyMap]
        ELSE IndentationReported

\* "  bad:" on line 1 was rejected with the position 1:3 and the text bad
C25_Witness ==
    /\ source = S6 /\ pc = "parse_err" /\ parse_error = "LabelIndentationError"
    /\ parse_error_at = [line |-> 1, col |-> 3, text |-> "bad"]

\* The indented label came as the 501st under --pedantic: ExcessLabelsError
IndentedPastCap ==
    /\ source = ManyLabels(MaxLabels, <<LabelAt("bad", MaxLabels + 1, 3)>>)
    /\ pc = "parse_err" /\ parse_error = "ExcessLabelsError"

\* ---------------------------------------------------------------------------
\* Properties of Set and MessageBox
\* ---------------------------------------------------------------------------

\* A Set is run and succeeds
SetDone == pc = "run" /\ Cmd.cmd = "Set" /\ pc' = "run" /\ error' = "none"

\* C26: after a successful Set{var, Value(i)} var holds the value of i, after a
\* successful Set{var, Expr{i1,op,i2}} the checked result; ip has advanced by
\* exactly 1, the call stack and the string store are as before, every other
\* integer variable that was defined keeps its value (and there is no host call);
\* S1 ends with a = 2, b = 5 and one beep.
C26_SetFrame ==
    /\ [][ SetDone =>
             /\ Cmd.var \in DOMAIN vars'
             /\ IF Cmd.val.kind = "Value" THEN vars'[Cmd.var] = Val(Cmd.val.i)
                ELSE /\ Fits(Cmd.val.op, Val(Cmd.val.i1), Val(Cmd.val.i2))
                     /\ IsExact(Cmd.val.op, Val(Cmd.val.i1), Val(Cmd.val.i2), vars'[Cmd.var])
             /\ ip' = ip + 1
             /\ call_stack' = call_stack /\ vars_str' = vars_str
             /\ host_calls' = host_calls
             /\ \A x \in (DOMAIN vars) \ {Cmd.var} : x \in DOMAIN vars' /\ vars'[x] = vars[x]
         ]_vars_all
    /\ [](source = S1 /\ pc = "ok" =>
             /\ DOMAIN vars = {"a", "b"} /\ vars["a"] = 2 /\ vars["b"] = 5
             /\ Len(host_calls) = 1 /\ host_calls[1].fn = "beep")

\* S1 at its end: both Sets done, a kept while b was written, one beep
C26_Witness ==
    /\ source = S1 /\ pc = "ok" /\ DOMAIN vars = {"a", "b"}
    /\ vars["a"] = 2 /\ vars["b"] = 5 /\ Len(host_calls) = 1

\* The identifiers of the buttons of a dialog of the given type
ButtonIds(typ) ==
    CASE typ = "OK" -> {1}
      [] typ = "OKCANCEL" -> {1, 2}
      [] typ = "YESNO" -> {1, 2}
      [] typ = "YESNOCANCEL" -> {1, 2, 3}

\* The variables a MessageBox may have to define: its default button and its result
BoxIdents(c) ==
    {c.button_pushed} \cup
    (IF c.default_button.kind = "Variable" THEN {c.default_button.ident} ELSE {})

\* C27: after a MessageBox its result variable holds exactly the u16 message_box
\* returned and ip has advanced by 1; what message_box returns is the identifier
\* of the button chosen or, when the dialog went without a choice, the value
\* default_button evaluated to.
C27_MessageBox ==
    [][ (pc = "run" /\ Cmd.cmd = "MessageBox" /\ Called /\ TheCall.ret.kind = "Ok"
         /\ RoomFor(Cardinality(BoxIdents(Cmd) \ DOMAIN vars))) =>
          /\ TheCall.fn = "message_box"
          /\ TheCall.ret.x \in ButtonIds(Cmd.typ) \cup {Val(Cmd.default_button)}
          /\ TheCall.args[2] = Val(Cmd.default_button)
          /\ pc' = "run" /\ ip' = ip + 1
          /\ Cmd.button_pushed \in DOMAIN vars'
          /\ vars'[Cmd.button_pushed] = TheCall.ret.x
          /\ \A x \in (DOMAIN vars) \ {Cmd.button_pushed} : vars'[x] = vars[x]
      ]_vars_all

\* The dialog of Dialog7 went without a choice: pushed holds the 7 of d
C27_Witness ==
    /\ source = Dialog7 /\ pc = "run" /\ Len(host_calls) = 1
    /\ host_calls[1].fn = "message_box" /\ host_calls[1].ret.x = 7
    /\ "pushed" \in DOMAIN vars /\ vars["pushed"] = 7 /\ vars["d"] = 7
    /\ program.commands[ip + 1].cmd = "End"

\* ---------------------------------------------------------------------------
\* Properties of the back-patching
\* ---------------------------------------------------------------------------

\* The commands the first g groups of the source emit, and the index of the
\* command that part p of group g emits
RECURSIVE EmittedUpTo(_)
EmittedUpTo(g) ==
    IF g = 0 THEN 0
    ELSE EmittedUpTo(g - 1)
         + Cardinality({ p \in DOMAIN source[g] : source[g][p].rule # "label" })
IndexOf(g, p) ==
    EmittedUpTo(g - 1)
    + Cardinality({ q \in 1..(p - 1) : source[g][q].rule # "label" })

\* C28: when a command group closes, every pending If of the group is patched to
\* one target, the number of commands emitted so far (the index of the first
\* command after the group, or of the End sentinel); no other group patches it
\* or is jumped into, and the labels inside the group do not change the target.
C28_GroupTarget ==
    Parsed =>
        \A g \in DOMAIN source : \A p \in DOMAIN source[g] :
            source[g][p].rule = "command_if_then" =>
                /\ program.commands[IndexOf(g, p) + 1].cmd = "If"
                /\ program.commands[IndexOf(g, p) + 1].goto_false = EmittedUpTo(g)

\* Groups was parsed: the two Ifs of the first group jump to 3, the If of the
\* second to 5 and the If of the last group to the End sentinel at 6
C28_Witness ==
    /\ source = Groups /\ pc = "run" /\ Len(program.commands) = 7
    /\ program.commands[1].goto_false = 3 /\ program.commands[3].goto_false = 3
    /\ program.commands[4].goto_false = 5 /\ program.commands[6].goto_false = 6
    /\ program.commands[7].cmd = "End"
    /\ program.labels["L2"] = 4

\* ---------------------------------------------------------------------------
\* Properties of the pedantic caps on reads and writes
\* ---------------------------------------------------------------------------

\* The integer variables a command names, to read or to write
NamedBy(c) ==
    CASE c.cmd = "Set" /\ c.val.kind = "Value" -> Idents(<<c.val.i>>) \cup {c.var}
      [] c.cmd = "Set" /\ c.val.kind = "Expression" ->
            Idents(<<c.val.i1, c.val.i2>>) \cup {c.var}
      [] c.cmd = "If" -> Idents(<<c.i1, c.i2>>)
      [] c.cmd = "MessageBox" -> Idents(<<c.default_button>>) \cup {c.button_pushed}
      [] c.cmd = "SetKeyboard" ->
            { k.ident : k \in { j \in DOMAIN c.params : j.kind = "Variable" } }
      [] c.cmd = "SetMouse" ->
            UNION { Idents(<<c.params[k].x1, c.params[k].y1, c.params[k].x2,
                             c.params[k].y2>>) : k \in DOMAIN c.params }
      [] c.cmd = "WaitInput" ->
            IF c.milliseconds.some THEN Idents(<<c.milliseconds.i>>) ELSE {}
      [] OTHER -> Idents(IntOperands(c))

\* The variables the step that is taken has to define: those the command names
\* and those of the mouse callback it is answered with, that have no binding
ToDefine ==
    (NamedBy(Cmd)
     \cup (IF Called /\ TheCall.ret.kind = "Mouse"
           THEN {TheCall.ret.callbacks.x, TheCall.ret.callbacks.y} ELSE {}))
    \ DOMAIN vars

\* C29: in pedantic mode ExcessVariablesError (ExcessVariablesStrError) is raised
\* only by an operation that would take the number of defined integer (string)
\* variables beyond 500 (200); a new value for a variable that is already
\* defined, by Set, MessageBox or a mouse callback, is stored also when exactly
\* 500 integer variables are defined.
C29_OnlyNewVariables ==
    [][ /\ (pc = "run" /\ pc' = "err" /\ error' = "ExcessVariablesError") =>
              /\ config.pedantic
              /\ ToDefine # {}
              /\ Len0(vars) + Cardinality(ToDefine) > MaxVars
        /\ (pc = "run" /\ pc' = "err" /\ error' = "ExcessVariablesStrError") =>
              /\ config.pedantic
              /\ StrVarsOf(Cmd) \ DOMAIN vars_str # {}
              /\ Len0(vars_str) + Cardinality(StrVarsOf(Cmd) \ DOMAIN vars_str) > MaxVarsStr
      ]_vars_all

\* With v1 ... v500 defined, SET v1 = 2 ended the run with ExcessVariablesError
OverwriteRefused ==
    /\ source = ManyVars(MaxVars, <<SetP("v1", TInt(2))>>)
    /\ config.pedantic /\ pc = "err" /\ error = "ExcessVariablesError"
    /\ Len0(vars) = MaxVars /\ Cmd.cmd = "Set" /\ Cmd.var = "v1"
    /\ vars["v1"] = 1

\* The integer variables a command reads
ReadBy(c) ==
    CASE c.cmd = "Set" /\ c.val.kind = "Value" -> Idents(<<c.val.i>>)
      [] c.cmd = "Set" /\ c.val.kind = "Expression" -> Idents(<<c.val.i1, c.val.i2>>)
      [] c.cmd = "MessageBox" -> Idents(<<c.default_button>>)
      [] OTHER -> NamedBy(c)

\* C30: reads count toward the caps of pedantic mode: the read of an undefined
\* integer variable with 500 defined fails with ExcessVariablesError instead of
\* giving 0, the read of an undefined string variable with 200 defined fails with
\* ExcessVariablesStrError, and the command makes no host call; the read of a
\* defined variable never fails.
C30_ReadsCount ==
    [][ pc = "run" =>
        /\ ~RoomFor(Cardinality(ReadBy(Cmd) \ DOMAIN vars)) =>
              /\ pc' = "err" /\ error' = "ExcessVariablesError"
              /\ ~Called /\ ip' = ip
              /\ Len0(vars') = MaxVars /\ \A x \in DOMAIN vars : vars'[x] = vars[x]
        /\ ( /\ config.pedantic /\ Len0(vars_str) = MaxVarsStr
             /\ StrVarsOf(Cmd) \ DOMAIN vars_str # {}
             /\ RoomFor(Cardinality(ReadBy(Cmd) \ DOMAIN vars)) ) =>
              /\ pc' = "err" /\ error' = "ExcessVariablesStrError"
              /\ ~Called /\ vars_str' = vars_str /\ ip' = ip
        /\ (ReadBy(Cmd) \subseteq DOMAIN vars /\ StrVarsOf(Cmd) \subseteq DOMAIN vars_str) =>
              /\ ~(~Called /\ Cmd.cmd # "Set"
                   /\ error' \in {"ExcessVariablesError", "ExcessVariablesStrError"})
              /\ (Cmd.cmd \in (DOMAIN HostFn) \cup {"WaitInput"} /\ ~Called) =>
                    pc' = "err" /\ error' = "InvalidVirtualKeyError"
      ]_vars_all

\* With 500 variables defined, DRAWNUMBER v1 v2 0 was drawn; the read of u in
\* DRAWNUMBER v1 u 0 then ended the run, and nothing more was drawn
C30_Witness ==
    /\ config.pedantic /\ pc = "err" /\ error = "ExcessVariablesError"
    /\ Cmd.cmd = "DrawNumber" /\ Len0(vars) = MaxVars /\ "u" \notin DOMAIN vars
    /\ Len(host_calls) = 1 /\ host_calls[1].args = <<1, 2, 0>>

\* ---------------------------------------------------------------------------
\* Properties of the input queue
\* ---------------------------------------------------------------------------

\* The click lies in the region: inclusive on x1, x2 and y2, exclusive on y1
Inside(region, click) ==
    /\ region.x1 <= click[1] /\ click[1] <= region.x2
    /\ region.y1 < click[2] /\ click[2] <= region.y2

EdgeMissed ==
    /\ Len(host_calls) = 2 /\ host_calls[1].fn = "set_mouse"
    /\ host_calls[1].args[1].y1 = 60 /\ host_calls[2].ret.kind = "End"
    /\ queue.mouse = << <<50, 60>> >>

\* The queue of a wait that has just been cleared, and the answer of the wait
\* when the activation of item p of the menu bar is the only event after that
Cleared == [clear(queue) EXCEPT !.closed = FALSE]
Activated(p) == process_queue(handle(Cleared, Activate(p))).ret

\* C32: an item or category declared with IGNORE is display-only, its
\* activation never makes wait_input return an input; every item with a label
\* gets its own key within one set_menu, so its activation returns Goto of that
\* item's label and never of another item's label.
C32_MenuItems ==
    \A p \in DOMAIN menu_bar :
        IF menu_bar[p].label.some
        THEN /\ Activated(p) = InputGoto(menu_bar[p].label.ident)
             /\ menu_key(p) \in DOMAIN host_menu
             /\ \A o \in DOMAIN menu_bar :
                   (o # p /\ menu_bar[o].label.some) => menu_key(o) # menu_key(p)
        ELSE /\ handle(queue, Activate(p)) = queue
             /\ handle(Cleared, Activate(p)) = Cleared
             /\ Activated(p).kind = "None"

\* After the second SETMENU of Remenu (t$ edit, "Help" IGNORE, "About" about) the
\* wait was answered by the activation of About, the third item and the second
\* with a label
C32_Witness ==
    /\ source = Remenu /\ Len(host_calls) = 3 /\ Len(menu_bar) = 3
    /\ ~menu_bar[2].label.some /\ menu_bar[3].label = SomeLabel("about")
    /\ host_calls[3].ret = InputGoto("about") /\ queue.menu = <<1>>
    /\ pc = "run" /\ ip = program.labels["about"]

\* ---------------------------------------------------------------------------
\* Properties of the instruction pointer and the call stack
\* ---------------------------------------------------------------------------

\* A VM exists: run is stepping or has returned
Started == pc \in {"run", "ok", "err"}

\* C33: in every reachable VM state ip is a valid index into commands and so is
\* every return address on the call stack, so the fetch of commands[ip] never
\* goes out of bounds.
C33_IpInBounds ==
    Started =>
        /\ 0 <= ip /\ ip < Len(program.commands)
        /\ \A k \in DOMAIN call_stack :
              0 <= call_stack[k] /\ call_stack[k] < Len(program.commands)

\* A Gosub that is the last command of the source pushed the index of the End
\* that from_src appends, the last valid index, and the run stands at that End
C33_Witness ==
    /\ pc = "run" /\ call_stack # <<>>
    /\ call_stack[Len(call_stack)] = Len(program.commands) - 1
    /\ ip = Len(program.commands) - 1

\* An If of the last group whose comparison failed went to the appended End
IfToTheEnd ==
    /\ pc = "run" /\ ip = Len(program.commands) - 1 /\ ip > 1
    /\ \E k \in DOMAIN program.commands :
          program.commands[k].cmd = "If" /\ program.commands[k].goto_false = ip

\* C34: the call stack is changed only by Gosub, which pushes ip + 1 once, and
\* by Return, which pops once: Goto, If, Set, the commands that go to the host
\* and WaitInput with every outcome leave it as it is, and as long as the run
\* has not failed its depth is the number of Gosubs executed minus the number
\* of Returns executed.
C34_StackFrame ==
    /\ [](pc \in {"run", "ok"} => Len(call_stack) = balance)
    /\ [][ /\ pc # "run" => call_stack' = call_stack
           /\ pc = "run" =>
                CASE Cmd.cmd = "Gosub" -> call_stack' = Append(call_stack, ip + 1)
                  [] Cmd.cmd = "Return" /\ call_stack # <<>> ->
                        call_stack' = SubSeq(call_stack, 1, Len(call_stack) - 1)
                  [] OTHER -> call_stack' = call_stack
         ]_vars_all

\* Waits: inside the subroutine the timed wait brought None and the untimed one
\* a jump to L1, and the frame of the Gosub at index 1 is still the only one
C34_Witness ==
    /\ source = Waits /\ pc = "run" /\ ip = program.labels["L1"]
    /\ Len(host_calls) = 3 /\ host_calls[2].ret.kind = "None"
    /\ host_calls[3].ret = InputGoto("L1")
    /\ call_stack = <<2>> /\ balance = 1

\* C35: a step that fails with a runtime error leaves ip unchanged; ip is
\* written only after the label lookup, the evaluation of the operands, the
\* host call and the assignment of that step have all succeeded.
C35_FailedStepKeepsIp ==
    [][ pc = "run" =>
          /\ pc' = "err" => ip' = ip
          /\ ip' # ip =>
                /\ pc' = "run" /\ error' = "none"
                /\ Called => TheCall.ret.kind # "Err"
      ]_vars_all

\* A click was answered with Input::Mouse, the coordinates were stored, and the
\* label of the region is not declared: the wait failed with ip still at it
C35_Witness ==
    /\ source = Stray /\ ip = 1
    /\ pc = "err" /\ error = "NonexistentLabelError" /\ Cmd.cmd = "WaitInput"
    /\ host_calls # <<>> /\ host_calls[Len(host_calls)].ret.kind = "Mouse"
    /\ host_calls[Len(host_calls)].ret.callbacks.x \in DOMAIN vars

\* A Set failed on its arithmetic after an earlier Set had advanced ip
SetFailedInPlace ==
    /\ pc = "err" /\ error = "MathOperationError" /\ Cmd.cmd = "Set" /\ ip > 0

\* C36: for a parsed program without Goto, Gosub, Return and WaitInput, and a
\* host whose calls all return, ip strictly increases at every step and run
\* ends, with Ok or an error, after at most commands.len() steps.
C36_StraightRun ==
    /\ [][ (pc = "run" /\ Straight) =>
              /\ steps' = steps + 1
              /\ pc' = "run" => ip' > ip
              /\ pc' # "run" => (pc' \in {"ok", "err"} /\ ip' = ip)
         ]_vars_all
    /\ []((Started /\ Straight) =>
              /\ steps <= Len(program.commands)
              /\ pc = "run" => steps <= ip)

\* Groups, four Ifs and no jump: the two comparisons that failed skipped one
\* command, and the run ended at the appended End after six steps, one less
\* than it has commands
C36_Witness ==
    /\ source = Groups /\ Straight /\ pc = "ok"
    /\ steps = 6 /\ Len(program.commands) = 7 /\ ip = 6

\* A run that executed every command of its program once
EveryCommandRun ==
    /\ Straight /\ pc = "ok" /\ steps = Len(program.commands) /\ steps > 2

\* ---------------------------------------------------------------------------
\* Properties of the key table passed to the host
\* ---------------------------------------------------------------------------

\* The maps a SetKeyboard at ip may pass to set_keyboard from the current state
KeyMaps ==
    { r.v : r \in { q \in { keyboard_params(vars, order, Cmd.params, config) :
                             order \in Orders(DOMAIN Cmd.params) } : q.ok } }

\* C37: the key-to-label map passed to set_keyboard is a function of the
\* SetKeyboard command and the current values of the variables, also when two
\* distinct source keys resolve to the same concrete key: from one state, one map.
C37_OneKeyMap ==
    (pc = "run" /\ Cmd.cmd = "SetKeyboard") => Cardinality(KeyMaps) <= 1

\* TwoNames: the variable k and the literal 65 stand for the same key; this run
\* has bound it to the label of k, and the same state and command also yield
\* the map that binds it to the label of the literal
KeyOrderShows ==
    /\ source = TwoNames /\ pc = "run" /\ ip = 2 /\ Len(host_calls) = 1
    /\ host_calls[1].fn = "set_keyboard" /\ vars = [v \in {"k"} |-> 65]
    /\ \E key \in DOMAIN host_keyboard : host_keyboard[key] = "one"
    /\ \E m \in { keyboard_params(vars, order, program.commands[2].params, config).v :
                    order \in Orders(DOMAIN program.commands[2].params) } :
          \E key \in DOMAIN m : m[key] = "two"

\* ---------------------------------------------------------------------------
\* Properties of process_queue
\* ---------------------------------------------------------------------------

\* Entry i of seq is the first one that is in S
FirstIn(seq, S, i) ==
    i \in DOMAIN seq /\ seq[i] \in S /\ \A j \in 1..(i - 1) : seq[j] \notin S

\* The clicks that lie in some region, and the first region a click lies in
InRegions == { c \in Clicks : \E k \in DOMAIN host_mouse : Inside(host_mouse[k], c) }
FirstAround(c, k) ==
    /\ k \in DOMAIN host_mouse /\ Inside(host_mouse[k], c)
    /\ \A o \in 1..(k - 1) : ~Inside(host_mouse[o], c)

\* The answer a to queue p follows the order closed, keys, clicks, menu
ByPriority(p, a) ==
    IF p.closed THEN a.ret.kind = "End"
    ELSE IF \E i \in DOMAIN p.keyboard : p.keyboard[i] \in DOMAIN host_keyboard
    THEN \E i \in DOMAIN p.keyboard :
            /\ FirstIn(p.keyboard, DOMAIN host_keyboard, i)
            /\ a.ret = InputGoto(host_keyboard[p.keyboard[i]])
    ELSE IF \E i \in DOMAIN p.mouse : p.mouse[i] \in InRegions
    THEN \E i \in DOMAIN p.mouse : \E k \in DOMAIN host_mouse :
            /\ FirstIn(p.mouse, InRegions, i) /\ FirstAround(p.mouse[i], k)
            /\ a.ret.kind = "Mouse" /\ a.ret.callbacks = host_mouse[k].callbacks
            /\ a.ret.x * scale = p.mouse[i][1] /\ a.ret.y * scale = p.mouse[i][2]
    ELSE IF \E i \in DOMAIN p.menu : p.menu[i] \in DOMAIN host_menu
    THEN \E i \in DOMAIN p.menu :
            /\ FirstIn(p.menu, DOMAIN host_menu, i)
            /\ a.ret = InputGoto(host_menu[p.menu[i]])
    ELSE /\ a.ret.kind = "None"
         /\ a.queue = EmptyQueue

\* C38: process_queue selects by fixed priority, not by arrival: End when closed
\* is set, whatever is queued, and clearing the queue never resets closed;
\* otherwise the first queued key with a binding, otherwise the first queued
\* click in a region with the first such region in SetMouse order, otherwise the
\* first queued menu activation with a label; otherwise it empties the queue and
\* returns None.
C38_Priority ==
    Started =>
        \A p \in Pumped(queue) :
            /\ ByPriority(p, process_queue(p))
            /\ clear(p).closed = p.closed
            /\ p.closed => process_queue(clear(p)).ret.kind = "End"

\* Mixed: from the queue of a key and a click inside both regions the wait took
\* the key, which one of the handlers is bound to
C38_Witness ==
    /\ source = Mixed /\ Len(host_calls) = 4 /\ pc = "run"
    /\ Len(queue.keyboard) = 2 /\ queue.mouse = << <<50, 60>> >>
    /\ host_calls[4].ret = InputGoto("key") /\ ip = program.labels["key"]

\* Mixed: a menu activation and a click were queued and the click was taken,
\* with the callbacks of the first of the two regions around it
ClickBeforeMenu ==
    /\ source = Mixed /\ Len(host_calls) = 4 /\ pc = "run"
    /\ queue.menu = <<0>> /\ queue.mouse = << <<50, 60>> >>
    /\ host_calls[4].ret.kind = "Mouse" /\ host_calls[4].ret.callbacks.label = "hit"

\* ---------------------------------------------------------------------------
\* Properties of the untimed wait
\* ---------------------------------------------------------------------------

\* The queues that up to MaxEvents events leave when they arrive at an empty queue
Fresh == { pump(EmptyQueue, b) : b \in EventSeqs(MaxEvents) }

\* C39: an untimed WaitInput in mode NULL reacts only to events that arrive after
\* the call has started: what was queued before it (during a timed WaitInput or
\* a MessageBox) is discarded and triggers no handler. The queue the wait leaves
\* holds events of this call only, and a Goto or Mouse answer is the one
\* process_queue gives on them.
C39_FreshEvents ==
    [][ WaitAnswered(FALSE) =>
          /\ queue' \in Fresh
          /\ TheCall.ret.kind \in {"Goto", "Mouse"} =>
                /\ TheCall.ret = process_queue(queue').ret
                /\ ~queue'.closed
      ]_vars_all

\* Stale: a click inside the region was queued by the timed wait; the untimed wait
\* that followed was answered by one click, the only entry of the queue it left
C39_Witness ==
    /\ source = Stale /\ Len(host_calls) = 3 /\ stale
    /\ host_calls[2].ret.kind = "None" /\ host_calls[3].ret.kind = "Mouse"
    /\ queue.mouse = << <<50, 60>> >> /\ queue.keyboard = <<>>
    /\ pc = "run" /\ ip = program.labels["hit"]

\* The untimed wait of Stale ended on the closing of the window, the clicks that
\* had been queued before it gone without a jump to hit
StaleDropped ==
    /\ source = Stale /\ Len(host_calls) = 3 /\ stale
    /\ host_calls[3].ret.kind = "End" /\ queue.mouse = <<>> /\ pc = "ok"

\* ---------------------------------------------------------------------------
\* Properties of repeated label declarations
\* ---------------------------------------------------------------------------

\* The names the source declares more than once, and the last declaration of a name
Redeclared ==
    { n \in Declared : Cardinality({ k \in DOMAIN Parts : Declares(k, n) }) > 1 }
LastOf(n) == CHOOSE k \in DOMAIN Parts :
                Declares(k, n) /\ \A j \in (k + 1)..Len(Parts) : ~Declares(j, n)

\* The table holds each repeated name with the index of the command that
\* follows its last declaration
LastWins ==
    \A n \in Redeclared :
        /\ n \in DOMAIN program.labels
        /\ program.labels[n] = EmittedBefore(LastOf(n))

\* C40: when a label name is declared more than once, parsing succeeds (the
\* repetition is no excess of labels: the error for that is left to sources
\* with more than MaxLabels names) and the table holds one entry for the name,
\* the index of the command that follows the last declaration.
C40_Redeclaration ==
    (ParseDone /\ Redeclared # {}) =>
        /\ parse_error = "ExcessLabelsError" => Cardinality(Declared) > MaxLabels
        /\ Parsed => LastWins

\* What the code does: the same, as long as the table is not full when a name
\* is declared again
C40_AsCoded ==
    (ParseDone /\ Redeclared # {}
     /\ ~(config.pedantic /\ Cardinality(Declared) >= MaxLabels)) =>
        /\ parse_error # "ExcessLabelsError"
        /\ Parsed => LastWins

\* Pedantic mode, MaxLabels names, and l1 declared once more as the last part
\* of the source: from_src returned ExcessLabelsError
RedeclarationRefused ==
    /\ config.pedantic /\ pc = "parse_err" /\ parse_error = "ExcessLabelsError"
    /\ Redeclared = {"l1"} /\ Cardinality(Declared) = MaxLabels
    /\ Declares(Len(Parts), "l1")

\* Twice, without pedantic mode: L1 is declared before command 0 and before
\* command 1, and the jump to L1 goes to command 1
RedeclarationParsed ==
    /\ source = Twice /\ Redeclared = {"L1"} /\ pc = "run"
    /\ DOMAIN program.labels = {"L1"} /\ program.labels["L1"] = 1 /\ ip = 1
    /\ Len(host_calls) = 1

====
